---- MODULE Spec2Model ----
(***************************************************************************)
(* The stack-guard object model of tlua (tlua/src/object.rs): the Index,   *)
(* NewIndex and Call capabilities over values on the Lua stack, the        *)
(* registry staging of get/set and the protected-call trampoline.          *)
(*                                                                         *)
(* The Lua state is a record l = [stack, reg, tables, status, errv, ret,    *)
(* acq, rel, ncalls, nsets, codes, emsg]; every ffi primitive is an        *)
(* operator from                                                           *)
(* a Lua state to the Lua state after it, and every function of object.rs  *)
(* is the composition of the primitives it calls, in the order of the      *)
(* source.                                                                 *)
(***************************************************************************)
EXTENDS Integers, Sequences, FiniteSets, TLC

VARIABLES lua, held, last, xtm, logger

vars == <<lua, held, last, xtm, logger>>

----------------------------------------------------------------------------
(* Bounds of the model                                                     *)

\* ops that push are enabled only while the stack is at most this deep
MaxStack == 3
\* results (guards) the caller holds at the same time
MaxHeld == 2
\* get/set are enabled only while three more handles fit under this count
MaxRefs == 4
\* queues xtm_create hands out
MaxQueues == 1
\* messages a queue takes
MaxMsgs == 1
\* runs of the logging tests in one process
MaxRuns == 2

----------------------------------------------------------------------------
(* Lua values                                                              *)

Nil == [t |-> "nil"]
Bool(b) == [t |-> "boolean", b |-> b]
Num(n) == [t |-> "number", n |-> n]
Str(s) == [t |-> "string", s |-> s]
Tab(id) == [t |-> "table", id |-> id]
Fun(id) == [t |-> "function", id |-> id]
\* the light userdata lua_cpcall passes to the trampoline
UD == [t |-> "userdata"]
\* a full userdata whose metatable defines the names mt
Object(mt) == [t |-> "object", mt |-> mt]

\* status codes of lua_cpcall / lua_pcall
LUA_ERRRUN == 2
LUA_ERRMEM == 4
\* a status other than success, LUA_ERRRUN and LUA_ERRMEM: an error raised
\* by the error handler
LUA_ERRERR == 5
\* the reference luaL_ref gives for nil
LUA_REFNIL == -1

\* The two tables the views of the model stand on: T1 is a plain table, T2
\* has a metatable whose __index and __newindex raise.
T1 == "T1"
T2 == "T2"
TableIds == {T1, T2}

\* The functions stored in T1: m0 returns nothing, m1 returns 42, m2 returns
\* (T1, 7) unless its first argument is a number, when it fails with "bad
\* argument": with a runtime error for 1, out of memory for 2 and in the
\* error handler for any other number; e raises "boom".
FunResults(fid) ==
    CASE fid = "m0" -> <<>>
      [] fid = "m1" -> <<Num(42)>>
      [] fid = "m2" -> <<Tab(T1), Num(7)>>
      [] OTHER -> <<>>
FunRaises(fid, args) ==
    \/ fid = "e"
    \/ fid = "m2" /\ args # <<>> /\ args[1].t = "number"
FunMessage(fid) == IF fid = "e" THEN Str("boom") ELSE Str("bad argument")
\* the status lua_pcall reports for a function that fails
FunStatus(fid, args) ==
    CASE fid = "e" -> LUA_ERRRUN
      [] args[1] = Num(1) -> LUA_ERRRUN
      [] args[1] = Num(2) -> LUA_ERRMEM
      [] OTHER -> LUA_ERRERR
\* the status the __index metamethod of T2 ends the protected call with:
\* a runtime error, but out of memory for the key "m2" and an error in the
\* error handler for the key "s"
IndexStatus(k) ==
    CASE k = Str("m2") -> LUA_ERRMEM
      [] k = Str("s") -> LUA_ERRERR
      [] OTHER -> LUA_ERRRUN

\* the metafields of a value: the names its metatable defines. The
\* metatable of T2 defines __index and __newindex; the metatable of strings
\* defines __index (the string library) and no __newindex; a userdata has
\* the names of its metatable.
MetaFields(v) ==
    CASE v.t = "table" /\ v.id = T2 -> {"__index", "__newindex"}
      [] v.t = "string" -> {"__index"}
      [] v.t = "object" -> v.mt
      [] OTHER -> {}

IndexMessage == Str("index error")
NewIndexMessage == Str("newindex error")
NilIndexMessage == Str("table index is nil")
NotIndexableMessage == Str("attempt to index a non-table value")
NotCallableMessage == Str("attempt to call a non-function value")

\* keys a table of the model can hold
FieldKeys ==
    {Str("x"), Num(1), Str("m0"), Str("m1"), Str("m2"), Str("e"), Str("s"),
     Str("t"), Str("c"), Str("rw"), Str("crw"), Str("self")}

InitT1 ==
    [k \in FieldKeys |->
        CASE k = Str("m0") -> Fun("m0")
          [] k = Str("m1") -> Fun("m1")
          [] k = Str("m2") -> Fun("m2")
          [] k = Str("e") -> Fun("e")
          [] k = Str("s") -> Str("text")
          [] k = Str("t") -> Tab(T2)
          [] k = Str("self") -> Tab(T1)
          [] k = Str("c") -> Object({"__call"})
          [] k = Str("rw") -> Object({"__index", "__newindex"})
          [] k = Str("crw") -> Object({"__call", "__index", "__newindex"})
          [] OTHER -> Nil]
InitT2 == [k \in FieldKeys |-> Nil]

----------------------------------------------------------------------------
(* Stack primitives                                                        *)

lua_gettop(l) == Len(l.stack)

\* an acceptable index (positive: absolute, negative: relative to the top)
AbsIndex(l, i) == IF i > 0 THEN i ELSE Len(l.stack) + 1 + i

At(l, i) ==
    LET a == AbsIndex(l, i)
    IN IF a >= 1 /\ a <= Len(l.stack) THEN l.stack[a] ELSE Nil

PushValue(l, v) == [l EXCEPT !.stack = Append(@, v)]

lua_settop(l, n) ==
    [l EXCEPT !.stack =
        IF n <= Len(@) THEN SubSeq(@, 1, n)
        ELSE @ \o [i \in 1..(n - Len(@)) |-> Nil]]

lua_pop(l, n) == lua_settop(l, Len(l.stack) - n)

lua_pushvalue(l, i) == PushValue(l, At(l, i))

raise(l, msg) == [l EXCEPT !.status = LUA_ERRRUN, !.errv = msg]

\* the protected call is left with `status` and the error value msg
fail(l, status, msg) == [l EXCEPT !.status = status, !.errv = msg]

----------------------------------------------------------------------------
(* The registry: reg[h] is the value pinned under handle h, or Free for a  *)
(* handle that luaL_unref gave back. Which freed handle luaL_ref reuses is *)
(* not part of its contract; the model reuses the smallest one.            *)

Free == [t |-> "free"]

\* an event of the log of the operation under way: what was done, the
\* handle (or status) it was done with, whether it was done inside a
\* protected call, and the value pinned by a luaL_ref
Ev(e, h, p, v) == [e |-> e, h |-> h, p |-> p, v |-> v]
Logged(l, e, h, v) == [l EXCEPT !.log = Append(@, Ev(e, h, l.prot, v))]

IsLive(l, h) == h >= 1 /\ h <= Len(l.reg) /\ l.reg[h] # Free

LiveHandles(l) == {h \in 1..Len(l.reg) : l.reg[h] # Free}

LiveCount(l) == Cardinality(LiveHandles(l))

FreeHandles(l) == {h \in 1..Len(l.reg) : l.reg[h] = Free}

\* the handle luaL_ref gives next
NextHandle(l) ==
    IF FreeHandles(l) = {} THEN Len(l.reg) + 1
    ELSE CHOOSE h \in FreeHandles(l) : \A g \in FreeHandles(l) : h <= g

\* luaL_ref(L, LUA_REGISTRYINDEX): pops the top; nil gets LUA_REFNIL,
\* anything else a freed handle or a new one. The handle is left in l.ret.
luaL_ref(l) ==
    LET v == At(l, -1)
        p == lua_pop(l, 1)
        h == NextHandle(l)
    IN IF v = Nil THEN [Logged(p, "ref", LUA_REFNIL, v) EXCEPT !.ret = LUA_REFNIL]
       ELSE [Logged(p, "ref", h, v)
                EXCEPT !.reg = IF h > Len(@) THEN Append(@, v)
                                ELSE [@ EXCEPT ![h] = v],
                       !.holder = IF h > Len(@) THEN Append(@, l.inv)
                                   ELSE [@ EXCEPT ![h] = l.inv],
                       !.ret = h,
                       !.acq = Append(@, h)]

\* the invocation that holds a handle nobody acquired during the operation
\* under way: the caller
Caller == -1

\* luaL_unref(L, LUA_REGISTRYINDEX, ref): a handle >= 0 is given back;
\* LUA_REFNIL and LUA_NOREF are ignored. badrel counts the handles given
\* back that were not live, or that another invocation had acquired.
luaL_unref(l, ref) ==
    IF ref >= 1 /\ ref <= Len(l.reg)
    THEN [Logged(l, "unref", ref, Nil)
             EXCEPT !.reg[ref] = Free, !.rel = Append(@, ref),
                    !.holder[ref] = Caller,
                    !.badrel = IF l.reg[ref] # Free /\ l.holder[ref] = l.inv
                               THEN @ ELSE @ + 1]
    ELSE IF ref > Len(l.reg)
    THEN [Logged(l, "unref", ref, Nil) EXCEPT !.badrel = @ + 1]
    ELSE Logged(l, "unref", ref, Nil)

\* lua_rawgeti(L, LUA_REGISTRYINDEX, ref): pushes registry[ref]
lua_rawgeti(l, ref) ==
    PushValue(Logged(l, "rawgeti", ref, Nil),
        IF ref >= 1 /\ ref <= Len(l.reg)
        THEN (IF l.reg[ref] = Free THEN Nil ELSE l.reg[ref])
        ELSE Nil)

----------------------------------------------------------------------------
(* Table access and calls of the VM                                        *)

RawGet(l, tv, k) == IF k \in FieldKeys THEN l.tables[tv.id][k] ELSE Nil

\* a primitive that can run a metamethod, and so can abort, is entered:
\* nnative counts the entries, unprot those made outside a protected call
native(l) ==
    [Logged(l, "native", 0, Nil)
        EXCEPT !.nnative = @ + 1, !.unprot = IF l.prot THEN @ ELSE @ + 1]

\* the closure called with no protected call around it
trampoline_direct(l) == [l EXCEPT !.stack = <<UD>>]

\* lua_cpcall runs the trampoline on a frame of its own, holding only the
\* userdata; what the closure does is protected
trampoline(l) ==
    [Logged(l, "enter", 0, Nil) EXCEPT !.stack = <<UD>>, !.prot = TRUE]

\* lua_cpcall leaving the frame of the trampoline on the caller's stack
lua_cpcall_keeps_frame(l, r) ==
    [r EXCEPT !.stack = l.stack \o r.stack,
              !.status = 0, !.errv = Nil, !.ret = r.status, !.prot = l.prot,
              !.codes = Append(@, r.status),
              !.emsg = IF r.status = 0 THEN @ ELSE r.errv]

\* lua_cpcall(L, trampoline, ud), r being the Lua state the closure left
\* on the frame of the trampoline: that frame is discarded, a failure leaves
\* its error value on the caller's stack, and the status is left in ret
\* (and recorded in codes, with the error value in emsg)
lua_cpcall(l, r) ==
    [r EXCEPT !.stack = IF r.status = 0 THEN l.stack
                        ELSE Append(l.stack, r.errv),
              !.status = 0, !.errv = Nil, !.ret = r.status, !.prot = l.prot,
              !.codes = Append(@, r.status),
              !.emsg = IF r.status = 0 THEN @ ELSE r.errv,
              !.log = Append(@, Ev("leave", r.status, l.prot, Nil))]

\* the key whose metamethods on T2 are host callbacks that re-enter this
\* layer, and the value the __index callback returns
CallbackKey == Num(1)
CallbackValue == Num(7)

\* the lookup t[k] of a plain table t
lua_rawget(l, i) == PushValue(lua_pop(l, 1), RawGet(l, At(l, i), At(l, -1)))

\* the closure of the lookup the callback makes: the staged table and key
\* come back from the registry
reenter_body(f, table_ref, index_ref) ==
    lua_rawget(lua_rawgeti(lua_rawgeti(f, table_ref), index_ref), -2)

\* the lookup of the callback from its protected call on
reenter_call(l2, index_ref) ==
    luaL_unref(luaL_unref(lua_cpcall(l2, reenter_body(trampoline(l2), l2.ret,
                                                      index_ref)),
                          index_ref),
               l2.ret)

reenter_stage_table(l1) == reenter_call(luaL_ref(lua_pushvalue(l1, -1)), l1.ret)

\* a callback run by a metamethod re-enters: on its own frame, above the
\* operands of the primitive that called it, as an invocation of its own
\* (inv is the nesting of the invocations), it pushes a view of T1, stages
\* a key and the view in the registry, looks the key up under a protected
\* call of its own and gives its handles back; the VM discards its frame
reenter(l) ==
    [reenter_stage_table(luaL_ref(PushValue(PushValue([l EXCEPT !.inv = @ + 1],
                                                      Tab(T1)),
                                            Str("s"))))
        EXCEPT !.stack = l.stack, !.inv = l.inv]

\* lua_gettable(L, i): pops the key, pushes t[key] for the value t at i; may
\* run __index, which for T2 re-enters and returns CallbackValue for
\* CallbackKey and raises for the other keys; the __index of a string is
\* the string library, which has none of the keys of the model; the
\* __index of a userdata raises.
lua_gettable(l, i) ==
    LET tv == At(l, i)
        k == At(l, -1)
        p == native(lua_pop(l, 1))
    IN IF tv.t = "string" THEN PushValue(p, Nil)
       ELSE IF tv.t = "object" /\ "__index" \in MetaFields(tv)
       THEN fail(p, IndexStatus(k), IndexMessage)
       ELSE IF tv.t # "table" THEN raise(p, NotIndexableMessage)
       ELSE IF RawGet(l, tv, k) # Nil THEN PushValue(p, RawGet(l, tv, k))
       ELSE IF "__index" \in MetaFields(tv)
            THEN (IF k = CallbackKey THEN PushValue(reenter(p), CallbackValue)
                  ELSE fail(p, IndexStatus(k), IndexMessage))
       ELSE PushValue(p, Nil)

\* lua_settable(L, i): t[key] = value for the value t at i, the value on top
\* and the key below it; pops both; may run __newindex, which for T2
\* re-enters and stores the value for CallbackKey and raises for the other
\* keys; the __newindex of a userdata raises.
lua_settable(l, i) ==
    LET tv == At(l, i)
        v == At(l, -1)
        k == At(l, -2)
        p == native(lua_pop(l, 2))
    IN IF tv.t = "object" /\ "__newindex" \in MetaFields(tv)
       THEN raise(p, NewIndexMessage)
       ELSE IF tv.t # "table" THEN raise(p, NotIndexableMessage)
       ELSE IF RawGet(l, tv, k) = Nil /\ "__newindex" \in MetaFields(tv)
            THEN (IF k = CallbackKey
                  THEN [reenter(p) EXCEPT !.tables[tv.id][k] = v,
                                          !.nsets = @ + 1]
                  ELSE raise(p, NewIndexMessage))
       ELSE IF k = Nil THEN raise(p, NilIndexMessage)
       ELSE IF k \notin FieldKeys THEN p
       ELSE [p EXCEPT !.tables[tv.id][k] = v, !.nsets = @ + 1]

\* luaL_getmetafield(L, i, name): pushes the metafield and returns non-zero,
\* or pushes nothing and returns 0.
luaL_getmetafield(l, i, name) ==
    IF name \in MetaFields(At(l, i))
    THEN [PushValue(l, Fun(name)) EXCEPT !.ret = 1]
    ELSE [l EXCEPT !.ret = 0]

\* lua_pcall(L, nargs, LUA_MULTRET, 0): pops the arguments and the function
\* below them, pushes the results, or the error message; the status is left
\* in l.ret, and recorded in l.codes with the message in l.emsg; the
\* function called and the arguments it got are recorded in cfun and cargs.
\* The __call of a userdata returns nothing.
lua_pcall(l, nargs) ==
    LET f == At(l, -(nargs + 1))
        args == SubSeq(l.stack, Len(l.stack) - nargs + 1, Len(l.stack))
        p == lua_pop(l, nargs + 1)
    IN IF f.t = "object" /\ "__call" \in MetaFields(f)
       THEN [p EXCEPT !.ret = 0, !.codes = Append(@, 0), !.ncalls = @ + 1,
                      !.cfun = f, !.cargs = args]
       ELSE IF f.t # "function"
       THEN [PushValue(p, NotCallableMessage)
                EXCEPT !.ret = LUA_ERRRUN,
                       !.codes = Append(@, LUA_ERRRUN),
                       !.emsg = NotCallableMessage]
       ELSE IF FunRaises(f.id, args)
       THEN [PushValue(p, FunMessage(f.id))
                EXCEPT !.ret = FunStatus(f.id, args),
                       !.codes = Append(@, FunStatus(f.id, args)),
                       !.emsg = FunMessage(f.id),
                       !.ncalls = @ + 1, !.cfun = f, !.cargs = args]
       ELSE [p EXCEPT !.stack = @ \o FunResults(f.id), !.ret = 0,
                      !.codes = Append(@, 0), !.ncalls = @ + 1,
                      !.cfun = f, !.cargs = args]

----------------------------------------------------------------------------
(* Host values, results and guards (tlua)                                  *)

\* a host value to push: pushing it leaves v on the stack, or fails
\* (Push::Err) leaving the stack as it was
Host(v) == [ok |-> TRUE, v |-> v]
Unpushable == [ok |-> FALSE, v |-> Nil]
\* a tuple of arguments: pushing it leaves vs on the stack, or fails
Args(vs) == [ok |-> TRUE, vs |-> vs]
UnpushableArgs == [ok |-> FALSE, vs |-> <<>>]

NoValue == [t |-> "none"]
Ok(v) == [tag |-> "Ok", kind |-> "", msg |-> "", val |-> v]
Err(kind, msg) == [tag |-> "Err", kind |-> kind, msg |-> msg, val |-> NoValue]
Panic(msg) == [tag |-> "Panic", kind |-> "", msg |-> msg, val |-> NoValue]

\* the text ToString reads off a value
ToText(v) == IF v.t = "string" THEN v.s ELSE v.t

\* PushGuard::drop of a guard of `size` slots whose inner value owns `own`
\* more: the slots are popped from the top
drop_guard(l, size, own) == lua_pop(l, size + own)

\* PushGuard::into_inner: pops the guard's slots, hands the inner value back
into_inner(l, size) == lua_pop(l, size)

\* PushOneInto::push_one / try_push_one of a value that can be pushed
push_one(l, h) == PushValue(l, h.v)

\* PushInto::try_push of arguments that can be pushed
try_push(l, args) == [l EXCEPT !.stack = @ \o args.vs]

----------------------------------------------------------------------------
(* imp: the capability predicates                                          *)

\* imp::is_callable: the answer (1 / 0) is left in l.ret
is_callable(l, i) ==
    IF At(l, i).t = "function" THEN [l EXCEPT !.ret = 1]
    ELSE LET m == luaL_getmetafield(l, i, "__call")
         IN IF m.ret # 0 THEN [lua_pop(m, 1) EXCEPT !.ret = 1]
            ELSE [m EXCEPT !.ret = 0]

\* is_indexable that does not look for __index
is_indexable_tables_only(l, i) ==
    [l EXCEPT !.ret = IF At(l, i).t = "table" THEN 1 ELSE 0]

\* imp::is_indexable
is_indexable(l, i) ==
    IF At(l, i).t = "table" THEN [l EXCEPT !.ret = 1]
    ELSE LET m == luaL_getmetafield(l, i, "__index")
         IN IF m.ret # 0 THEN [lua_pop(m, 1) EXCEPT !.ret = 1]
            ELSE [m EXCEPT !.ret = 0]

\* imp::is_rw_indexable
is_rw_indexable(l, i) ==
    LET oldtop == lua_gettop(l)
    IN IF At(l, i).t = "table" THEN [l EXCEPT !.ret = 1]
       ELSE LET m1 == luaL_getmetafield(l, i, "__index")
                m2 == luaL_getmetafield(m1, i, "__newindex")
            IN IF m1.ret = 0 THEN [m1 EXCEPT !.ret = 0]
               ELSE IF m2.ret = 0 THEN [m2 EXCEPT !.ret = 0]
               ELSE [lua_settop(m2, oldtop) EXCEPT !.ret = 1]

\* imp::is_table
is_table(l, i) == [l EXCEPT !.ret = IF At(l, i).t = "table" THEN 1 ELSE 0]

\* imp::is_function
is_function(l, i) ==
    [l EXCEPT !.ret = IF At(l, i).t = "function" THEN 1 ELSE 0]

\* the result types of the model: host types read by value, and the views
ValueTypes == {"bool", "int", "text", "unit"}
ViewTypes == {"Callable", "Indexable", "IndexableRW"}

LuaTypeOf(R) ==
    CASE R = "bool" -> "boolean"
      [] R = "int" -> "number"
      [] R = "text" -> "string"
      [] OTHER -> "none"

\* the runtime check of impl_object!'s read(lua, index) for the view R
CheckView(R, l, i) ==
    CASE R = "Callable" -> is_callable(l, i)
      [] R = "Indexable" -> is_indexable(l, i)
      [] OTHER -> is_rw_indexable(l, i)

\* the result of reading a view: the check c passed and the view keeps the
\* guard of gsize slots, or it failed and the guard is handed back
read_view(c, l, i, gsize) ==
    [l |-> [c EXCEPT !.ret = 0], ok |-> c.ret = 1, val |-> At(l, i),
     index |-> AbsIndex(l, i), gsize |-> IF c.ret = 1 THEN gsize ELSE 0]

\* LuaRead::lua_read_at_position of R at index i through a guard of `size`
\* slots (whose inner value owns `own` more). A view keeps the guard; a host
\* value is copied out and the guard is dropped; a failed read hands the
\* guard back. gsize is the number of slots the result owns.
lua_read_at_position(l, R, i, size, own) ==
    IF R \in ViewTypes
    THEN read_view(CheckView(R, l, i), l, i, size + own)
    ELSE IF R = "unit" \/ At(l, i).t = LuaTypeOf(R)
    THEN [l |-> drop_guard(l, size, own), ok |-> TRUE,
          val |-> IF R = "unit" THEN NoValue ELSE At(l, i),
          index |-> 0, gsize |-> 0]
    ELSE [l |-> l, ok |-> FALSE, val |-> NoValue, index |-> 0, gsize |-> 0]

\* LuaRead::lua_read_at_maybe_zero_position: nothing but () reads at 0
lua_read_at_maybe_zero_position(l, R, i, size, own) ==
    IF i # 0 \/ R = "unit" THEN lua_read_at_position(l, R, i, size, own)
    ELSE [l |-> l, ok |-> FALSE, val |-> NoValue, index |-> 0, gsize |-> 0]

----------------------------------------------------------------------------
(* imp::protected_call                                                     *)

\* read_error_message that leaves the message on the stack
read_error_message_kept(l, size, own) ==
    [l |-> l, msg |-> ToText(At(l, -1))]

\* ToString::lua_read(PushGuard::new(lua, size)): the message on top of the
\* stack is read as text and the guard, dropped by the read, pops its slots
read_error_message(l, size, own) ==
    [l |-> drop_guard(l, size, own), msg |-> ToText(At(l, -1))]

\* LuaError::ExecutionError carrying the message m read off the stack
error_of(m) == [l |-> m.l, res |-> Err("ExecutionError", m.msg), out |-> 0]

\* the match on rc that takes the output slot whatever the status is
protected_call_match_unchecked(back, out) ==
    IF back.ret = LUA_ERRMEM
    THEN [l |-> [back EXCEPT !.ret = 0],
          res |-> Panic("lua_cpcall returned LUA_ERRMEM"), out |-> 0]
    ELSE [l |-> [back EXCEPT !.ret = 0], res |-> Ok(NoValue), out |-> out]

\* the match on rc that returns an error value for LUA_ERRMEM as it does
\* for LUA_ERRRUN
protected_call_match_downgraded(back, out) ==
    CASE back.ret = 0 ->
             [l |-> [back EXCEPT !.ret = 0], res |-> Ok(NoValue), out |-> out]
      [] back.ret \in {LUA_ERRMEM, LUA_ERRRUN} ->
             error_of(read_error_message([back EXCEPT !.ret = 0], 1, 0))
      [] OTHER ->
             [l |-> [back EXCEPT !.ret = 0],
              res |-> Panic("Unknown error code"), out |-> 0]

\* the match on rc in imp::protected_call: `back` is the caller's Lua state
\* after lua_cpcall returned, rc in back.ret, out what the closure returned
protected_call_match(back, out) ==
    CASE back.ret = 0 ->
             [l |-> [back EXCEPT !.ret = 0], res |-> Ok(NoValue), out |-> out]
      [] back.ret = LUA_ERRMEM ->
             [l |-> [back EXCEPT !.ret = 0],
              res |-> Panic("lua_cpcall returned LUA_ERRMEM"), out |-> 0]
      [] back.ret = LUA_ERRRUN ->
             error_of(read_error_message([back EXCEPT !.ret = 0], 1, 0))
      [] OTHER ->
             [l |-> [back EXCEPT !.ret = 0],
              res |-> Panic("Unknown error code"), out |-> 0]

\* imp::protected_call(lua, f), r being the Lua state the closure f left
\* when run on the frame of the trampoline. The result is [l, res, out]:
\* out is what the closure returned.
protected_call(l, r) == protected_call_match(lua_cpcall(l, r), r.ret)

----------------------------------------------------------------------------
(* imp::try_get                                                            *)

\* the closure of try_get with the index pushed before the indexable
GetBody_swapped(l, table_ref, index_ref) ==
    LET a == lua_rawgeti(l, index_ref)
        b == lua_rawgeti(a, table_ref)
        c == lua_gettable(b, -2)
    IN IF c.status # 0 THEN c ELSE luaL_ref(c)

\* the closure of try_get: push indexable, push index, gettable, save value
GetBody(l, table_ref, index_ref) ==
    LET a == lua_rawgeti(l, table_ref)
        b == lua_rawgeti(a, index_ref)
        c == lua_gettable(b, -2)
    IN IF c.status # 0 THEN c ELSE luaL_ref(c)

\* fetch_value with a guard that owns no slot
fetch_value_unguarded(l, value_ref, R, own) ==
    lua_read_at_position(lua_rawgeti(l, value_ref), R, -1, 0, own)

\* move value from registry to stack and read it as R through a guard of
\* the one slot
fetch_value(l, value_ref, R, own) ==
    lua_read_at_position(Logged(lua_rawgeti(l, value_ref), "read", 0, Nil),
                         R, -1, 1, own)

\* "unref temporaries" that gives the handle of the value back twice
get_unref_twice(rd, value_ref, index_ref, table_ref) ==
    [l |-> [luaL_unref(
                luaL_unref(
                    luaL_unref(
                        luaL_unref(IF rd.ok THEN rd.l
                                   ELSE into_inner(rd.l, 1),
                                   value_ref),
                        value_ref),
                    index_ref),
                table_ref) EXCEPT !.ret = 0],
     res |-> IF rd.ok THEN Ok(rd.val) ELSE Err("WrongType", ""),
     gsize |-> rd.gsize, index |-> rd.index]

\* try_get from "unref temporaries" on: rd is the outcome of the read (a
\* failed read takes the lua out of the guard, which pops the value), the
\* three handles are released and the result is returned
get_unref(rd, value_ref, index_ref, table_ref) ==
    [l |-> [luaL_unref(
                luaL_unref(
                    luaL_unref(IF rd.ok THEN rd.l ELSE into_inner(rd.l, 1),
                               value_ref),
                    index_ref),
                table_ref) EXCEPT !.ret = 0],
     res |-> IF rd.ok THEN Ok(rd.val) ELSE Err("WrongType", ""),
     gsize |-> rd.gsize, index |-> rd.index]

\* the match on the result of protected_call that reports an error of the
\* VM as a value of the wrong type
get_match_as_wrong_type(pc, index_ref, table_ref, R, own) ==
    IF pc.res.tag # "Ok"
    THEN [l |-> [pc.l EXCEPT !.ret = 0], res |-> Err("WrongType", ""),
          gsize |-> 0, index |-> 0]
    ELSE get_unref(fetch_value(pc.l, pc.out, R, own), pc.out, index_ref,
                   table_ref)

\* try_get from the match on the result of protected_call on: an error is
\* returned at once; otherwise the value is fetched and read
get_match(pc, index_ref, table_ref, R, own) ==
    IF pc.res.tag # "Ok"
    THEN [l |-> [pc.l EXCEPT !.ret = 0], res |-> pc.res, gsize |-> 0,
          index |-> 0]
    ELSE get_unref(fetch_value(pc.l, pc.out, R, own), pc.out, index_ref,
                   table_ref)

\* try_get from the protected call on: l4 is the Lua state with index and
\* indexable staged, the handle of the indexable in l4.ret
get_call(l4, index_ref, R, own) ==
    get_match(protected_call(l4, GetBody(trampoline(l4), l4.ret, index_ref)),
              index_ref, l4.ret, R, own)

\* try_get taking the indexable from the top of the stack
get_stage_table_from_top(l2, this_index, R, own) ==
    get_call(luaL_ref(lua_pushvalue(l2, -1)), l2.ret, R, own)

\* try_get from "push indexable onto the stack" on: l2 is the Lua state with
\* the index staged, its handle in l2.ret
get_stage_table(l2, this_index, R, own) ==
    get_call(luaL_ref(lua_pushvalue(l2, this_index)), l2.ret, R, own)

\* try_get staging the indexable before the index
try_get_table_first(l0, own, this_index, index, R) ==
    get_call([luaL_ref(push_one(luaL_ref(lua_pushvalue(l0, this_index)),
                                index))
                 EXCEPT !.ret = luaL_ref(lua_pushvalue(l0, this_index)).ret],
             luaL_ref(push_one(luaL_ref(lua_pushvalue(l0, this_index)),
                               index)).ret,
             R, own)

\* imp::try_get(this, this_index, index) reading R. `own` is the number of
\* slots `this` owns when it is passed by value (0 for a borrowed guard).
\* The result is [l, res, gsize, index]: gsize the slots the returned value
\* owns, index the absolute position of a returned view.
try_get(l0, own, this_index, index, R) ==
    get_stage_table(luaL_ref(push_one(l0, index)), this_index, R, own)

----------------------------------------------------------------------------
(* imp::try_checked_set                                                    *)

\* the closure of try_checked_set with the value pushed before the index
SetBody_swapped(l, table_ref, index_ref, value_ref) ==
    LET a == lua_rawgeti(l, table_ref)
        b == lua_rawgeti(a, value_ref)
        c == lua_rawgeti(b, index_ref)
    IN [lua_settable(c, -3) EXCEPT !.ret = 0]

\* the closure of try_checked_set: push indexable, index, value, settable
SetBody(l, table_ref, index_ref, value_ref) ==
    LET a == lua_rawgeti(l, table_ref)
        b == lua_rawgeti(a, index_ref)
        c == lua_rawgeti(b, value_ref)
    IN [lua_settable(c, -3) EXCEPT !.ret = 0]

\* try_checked_set from the `?` on the result of protected_call on: an
\* error is returned at once; otherwise the three handles are released
set_unref(pc, value_ref, index_ref, table_ref) ==
    IF pc.res.tag # "Ok"
    THEN [l |-> [pc.l EXCEPT !.ret = 0], res |-> pc.res, entered |-> TRUE]
    ELSE [l |-> [luaL_unref(luaL_unref(luaL_unref(pc.l, value_ref),
                                       index_ref),
                            table_ref) EXCEPT !.ret = 0],
          res |-> Ok(NoValue), entered |-> TRUE]

\* try_checked_set from the protected call on: l6 is the Lua state with
\* value, index and indexable staged, the handle of the indexable in l6.ret
set_call(l6, value_ref, index_ref) ==
    set_unref(protected_call(l6, SetBody(trampoline(l6), l6.ret, index_ref,
                                         value_ref)),
              value_ref, index_ref, l6.ret)

\* try_checked_set from "push indexable onto the stack" on: l4 is the Lua
\* state with value and index staged, the handle of the index in l4.ret
set_stage_table(l4, value_ref, this_index) ==
    set_call(luaL_ref(lua_pushvalue(l4, this_index)), value_ref, l4.ret)

\* the push of the index checked only after the assignment was attempted
\* with the nil it left
set_stage_index_late(l2, this_index, index) ==
    IF ~index.ok
    THEN [set_stage_table(luaL_ref(push_one(l2, Host(Nil))), l2.ret,
                          this_index)
             EXCEPT !.res = Err("KeyPushError", "")]
    ELSE set_stage_table(luaL_ref(push_one(l2, index)), l2.ret, this_index)

\* try_checked_set from "push index onto the stack" on: l2 is the Lua state
\* with the value staged, its handle in l2.ret; a key that fails to push
\* returns KeyPushError at once
set_stage_index(l2, this_index, index) ==
    IF ~index.ok
    THEN [l |-> [l2 EXCEPT !.ret = 0], res |-> Err("KeyPushError", ""),
          entered |-> FALSE]
    ELSE set_stage_table(luaL_ref(push_one(l2, index)), l2.ret, this_index)

\* imp::try_checked_set(this, this_index, index, value); the result is
\* [l, res, entered]: entered tells whether the protected call was started.
\* A value that fails to push returns ValuePushError at once.
try_checked_set(l0, this_index, index, value) ==
    IF ~value.ok
    THEN [l |-> l0, res |-> Err("ValuePushError", ""), entered |-> FALSE]
    ELSE set_stage_index(luaL_ref(push_one(l0, value)), this_index, index)

----------------------------------------------------------------------------
(* imp::call                                                               *)

\* n_results measured from the top after the callable was duplicated
NResults_after_dup(l, old_top) == lua_gettop(l) - (old_top + 1)

\* n_results: the slots the call left above the top recorded before the
\* callable was duplicated
NResults(l, old_top) == lua_gettop(l) - old_top

\* the ExecutionError of imp::call carrying the message m read off the stack
call_error(m) ==
    [l |-> [m.l EXCEPT !.ret = 0], res |-> Err("ExecutionError", m.msg),
     gsize |-> 0, index |-> 0]

\* the end of imp::call: rd is the outcome of reading the results; a failed
\* read is wrong_type_returned, and the guard of the results is dropped
call_read(rd, n_results, own) ==
    IF rd.ok
    THEN [l |-> [rd.l EXCEPT !.ret = 0], res |-> Ok(rd.val),
          gsize |-> rd.gsize, index |-> rd.index]
    ELSE [l |-> [drop_guard(rd.l, n_results, own) EXCEPT !.ret = 0],
          res |-> Err("WrongType", ""), gsize |-> 0, index |-> 0]

\* the match of imp::call decoding the results from the top of the stack
call_match_reads_top(l3, pcall_return_value, n_results, own, R) ==
    CASE pcall_return_value = LUA_ERRMEM ->
             [l |-> [l3 EXCEPT !.ret = 0],
              res |-> Panic("lua_pcall returned LUA_ERRMEM"),
              gsize |-> 0, index |-> 0]
      [] pcall_return_value = LUA_ERRRUN ->
             call_error(read_error_message(l3, n_results, own))
      [] pcall_return_value = 0 ->
             call_read(lua_read_at_maybe_zero_position(l3, R, -1,
                                                       n_results, own),
                       n_results, own)
      [] OTHER ->
             [l |-> [l3 EXCEPT !.ret = 0],
              res |-> Panic("Unknown error code"), gsize |-> 0, index |-> 0]

\* imp::call from the match on pcall_return_value on: l3 is the Lua state
\* lua_pcall left, pushed_value the guard of n_results slots over `this`
call_match(l3, pcall_return_value, n_results, own, R) ==
    CASE pcall_return_value = LUA_ERRMEM ->
             [l |-> [l3 EXCEPT !.ret = 0],
              res |-> Panic("lua_pcall returned LUA_ERRMEM"),
              gsize |-> 0, index |-> 0]
      [] pcall_return_value = LUA_ERRRUN ->
             call_error(read_error_message(l3, n_results, own))
      [] pcall_return_value = 0 ->
             call_read(lua_read_at_maybe_zero_position(l3, R, -n_results,
                                                       n_results, own),
                       n_results, own)
      [] OTHER ->
             [l |-> [l3 EXCEPT !.ret = 0],
              res |-> Panic("Unknown error code"), gsize |-> 0, index |-> 0]

\* imp::call after lua_pcall returned: l3 is the Lua state it left, its
\* status in l3.ret
call_pcall(l3, old_top, own, R) ==
    call_match(l3, l3.ret, NResults(l3, old_top), own, R)

\* imp::call handing the callable itself to the VM, its slot left nil
call_moves_callable(l0, own, index, args, R) ==
    IF ~args.ok
    THEN [l |-> [drop_guard(lua_pushvalue(l0, index), 0, own)
                    EXCEPT !.ret = 0],
          res |-> Err("PushError", ""), gsize |-> 0, index |-> 0]
    ELSE call_pcall(lua_pcall(try_push([lua_pushvalue(l0, index)
                                           EXCEPT !.stack[index] = Nil],
                                       args),
                              Len(args.vs)),
                    lua_gettop(l0), own, R)

\* imp::call(this, index, args) reading R. `own` is the number of slots
\* `this` owns when it is passed by value (0 for a borrowed guard); they are
\* popped when `this`, or the guard wrapping it, is dropped. Arguments that
\* fail to push return PushError at once, after the callable was
\* duplicated. The result is [l, res, gsize, index].
call(l0, own, index, args, R) ==
    IF ~args.ok
    THEN [l |-> [drop_guard(lua_pushvalue(l0, index), 0, own)
                    EXCEPT !.ret = 0],
          res |-> Err("PushError", ""), gsize |-> 0, index |-> 0]
    ELSE call_pcall(lua_pcall(try_push(lua_pushvalue(l0, index), args),
                              Len(args.vs)),
                    lua_gettop(l0), own, R)

----------------------------------------------------------------------------
(* The traits Index, NewIndex and Call                                     *)

\* Index::try_get: imp::try_get on the borrowed guard, the view dropped
\* from the error
Index_try_get(l, this_index, index, R) == try_get(l, 0, this_index, index, R)

\* Result::ok(): any error becomes None
Result_ok(r) == IF r.res.tag = "Err" THEN [r EXCEPT !.res = Err("None", "")] ELSE r

\* Index::get: try_get(index).ok()
Index_get(l, this_index, index, R) ==
    Result_ok(Index_try_get(l, this_index, index, R))

\* the mapping of the call's error that takes a raised error for a missing
\* method
MethodCallErrorOf_conflated(e) ==
    CASE e.kind = "PushError" -> Err("PushError", "")
      [] OTHER -> Err("NoSuchMethod", "")

\* the mapping of the call's error in call_method
MethodCallErrorOf(e) ==
    CASE e.kind = "PushError" -> Err("PushError", "")
      [] OTHER -> Err("LuaError:" \o e.kind, e.msg)

\* map_err of call_method on the result c of into_call_with
method_map_err(c) ==
    IF c.res.tag = "Err" THEN [c EXCEPT !.res = MethodCallErrorOf(c.res)]
    ELSE c

\* call_method from ok_or(NoSuchMethod)? on: g is the result of
\* get::<Callable>(name); the method is passed by value to into_call_with
\* and owns its slot
method_call(g, args, R) ==
    IF g.res.tag = "Panic" THEN g
    ELSE IF g.res.tag # "Ok" THEN [g EXCEPT !.res = Err("NoSuchMethod", "")]
    ELSE method_map_err(call(g.l, g.gsize, g.index, args, R))

\* Index::call_method: get::<Callable>(name), None becoming NoSuchMethod,
\* then into_call_with((self, args)) on the method
call_method(l, this_index, name, args, R) ==
    method_call(Index_get(l, this_index, Host(Str(name)), "Callable"),
                [ok |-> args.ok, vs |-> <<At(l, this_index)>> \o args.vs], R)

\* NewIndex::try_checked_set
NewIndex_try_checked_set(l, this_index, index, value) ==
    try_checked_set(l, this_index, index, value)

\* checked_set that returns the error raised by the VM instead of panicking
unwrap_or_return(r) == r

\* panic!("Setting value failed: {}", e) on an error raised by the VM
unwrap_or_panic(r) ==
    IF r.res.tag = "Err" /\ r.res.kind \notin {"KeyPushError", "ValuePushError"}
    THEN [r EXCEPT !.res = Panic("Setting value failed: " \o r.res.msg)]
    ELSE r

\* NewIndex::checked_set: a push failure is returned, an error raised by the
\* VM panics
NewIndex_checked_set(l, this_index, index, value) ==
    unwrap_or_panic(NewIndex_try_checked_set(l, this_index, index, value))

\* NewIndex::try_set: key and value cannot fail to push; the error raised
\* by the VM is returned
NewIndex_try_set(l, this_index, index, value) ==
    try_checked_set(l, this_index, index, value)

\* panic!("Setting value failed: {}", e) on any error
panic_on_err(r) ==
    IF r.res.tag = "Err"
    THEN [r EXCEPT !.res = Panic("Setting value failed: " \o r.res.msg)]
    ELSE r

\* NewIndex::set: panics on any error of try_set
NewIndex_set(l, this_index, index, value) ==
    panic_on_err(NewIndex_try_set(l, this_index, index, value))

----------------------------------------------------------------------------
(* Conversions between views (impl_object!)                                *)

\* the narrowing conversions <<source, target>> the instances of
\* impl_object! define with try_from and try_into
TryFromPairs ==
    {<<"Callable", "Indexable">>, <<"Indexable", "LuaTable">>,
     <<"Indexable", "IndexableRW">>, <<"Callable", "IndexableRW">>,
     <<"IndexableRW", "LuaTable">>,
     <<"Indexable", "Callable">>, <<"IndexableRW", "Callable">>,
     <<"Callable", "LuaFunction">>}

\* the widening conversions <<source, target>> they define with from
FromPairs ==
    {<<"IndexableRW", "Indexable">>, <<"LuaTable", "Indexable">>,
     <<"LuaTable", "IndexableRW">>, <<"LuaFunction", "Callable">>}

\* the predicate $check / $check_into of the conversion to `target`
ConvCheck(target, l, i) ==
    CASE target = "LuaTable" -> is_table(l, i)
      [] target = "LuaFunction" -> is_function(l, i)
      [] OTHER -> CheckView(target, l, i)

\* try_from whose failing arm drops the view it was given
try_from_result_dropped(c, other, target) ==
    [l |-> IF c.ret = 1 THEN [c EXCEPT !.ret = 0]
           ELSE [drop_guard(c, other.size, 0) EXCEPT !.ret = 0],
     res |-> IF c.ret = 1 THEN Ok(NoValue) ELSE Err("Original", ""),
     view |-> IF c.ret = 1 THEN [other EXCEPT !.kind = target] ELSE other]

\* the two arms of try_from: c is the Lua state the check left, its answer
\* in c.ret; Ok(Self { lua: other.lua, index: other.index }) or Err(other)
try_from_result(c, other, target) ==
    [l |-> [c EXCEPT !.ret = 0],
     res |-> IF c.ret = 1 THEN Ok(NoValue) ELSE Err("Original", ""),
     view |-> IF c.ret = 1 THEN [other EXCEPT !.kind = target] ELSE other]

\* TryFrom::try_from(other) for the view type `target`: a view is
\* [size, kind, index], the slots its guard owns, its type and its position
try_from(l, other, target) ==
    try_from_result(ConvCheck(target, l, other.index), other, target)

\* from that places the view it makes at the top of the stack
from_at_top(l, other, target) ==
    [l |-> l, res |-> Ok(NoValue),
     view |-> [other EXCEPT !.kind = target, !.index = lua_gettop(l)]]

\* From::from(other): Self { index: other.index(), lua: other.into_inner() }
from(l, other, target) ==
    [l |-> l, res |-> Ok(NoValue), view |-> [other EXCEPT !.kind = target]]

----------------------------------------------------------------------------
(* The xtm queue (src/xtm.rs). xtm is the record [inner, live, deleted,    *)
(* made, count, diag, op, r, out, passed, misuse]: inner is the pointer    *)
(* the caller's Queue holds, live and deleted the queues of the engine,    *)
(* count their messages, diag the last error of the engine; op, r and out  *)
(* are the last operation, what its primitive returned and what the        *)
(* operation returned; passed and misuse are the last primitive call and   *)
(* the last one that was given a deleted queue.                            *)

\* the null pointer xtm_create returns when it fails
NullQueue == 0

NoCall == [prim |-> "", q |-> NullQueue]

InitXtm ==
    [inner |-> NullQueue, live |-> {}, deleted |-> {}, made |-> 0,
     count |-> [q \in {} |-> 0], diag |-> "", op |-> "", r |-> 0,
     out |-> Ok(NoValue), passed |-> NoCall, misuse |-> NoCall]

\* TarantoolError::last(): the last error of the engine, as an error value
TarantoolError_last(x) == Err("TarantoolError", x.diag)

\* the engine after the primitive prim was given the queue q and returned
\* r: a failure sets the last error of the engine, a successful xtm_delete
\* frees the queue, a successful xtm_msg_send adds a message. What a
\* primitive does with a queue that was deleted is undefined: it returns
\* any r and the call is recorded in misuse.
xtm_call(x, prim, q, r) ==
    [x EXCEPT
        !.passed = [prim |-> prim, q |-> q],
        !.misuse = IF q \in x.deleted THEN [prim |-> prim, q |-> q] ELSE @,
        !.diag = IF r < 0 THEN prim ELSE @,
        !.live = IF prim = "xtm_delete" /\ r >= 0 THEN @ \ {q} ELSE @,
        !.deleted = IF prim = "xtm_delete" /\ r >= 0 /\ q \in x.live
                    THEN @ \cup {q} ELSE @,
        !.count = IF prim = "xtm_msg_send" /\ r >= 0 /\ q \in x.live
                  THEN [@ EXCEPT ![q] = @ + 1] ELSE @]

\* the statuses a primitive given the queue q can return: a full queue
\* takes no message
Statuses(prim, q) ==
    IF prim \in {"xtm_msg_send", "xtm_msg_probe"} /\ q \in xtm.live
                                                 /\ xtm.count[q] >= MaxMsgs
    THEN {-1}
    ELSE {-1, 0}

\* the operation op, whose primitive returned r and left the engine as x,
\* returns out to the caller
XtmReturn(op, x, r, out) ==
    /\ xtm' = [x EXCEPT !.op = op, !.r = r, !.out = out]
    /\ UNCHANGED <<lua, held, last, logger>>

\* Queue::new: xtm_create gives a queue or null; null is the last error
New ==
    /\ xtm.made < MaxQueues
    /\ \E q \in {NullQueue, xtm.made + 1} :
          XtmReturn("new",
                    IF q = NullQueue
                    THEN [xtm EXCEPT !.diag = "xtm_create",
                                     !.passed = NoCall]
                    ELSE [xtm EXCEPT !.inner = q, !.made = q,
                                     !.live = @ \cup {q},
                                     !.count = [p \in 1..q |->
                                                   IF p = q THEN 0 ELSE @[p]],
                                     !.passed = NoCall],
                    q,
                    IF q = NullQueue
                    THEN TarantoolError_last([xtm EXCEPT
                                                 !.diag = "xtm_create"])
                    ELSE Ok(Num(q)))

\* Queue::delete that reports success whatever the primitive returned
Delete_ignoring_status ==
    /\ xtm.inner # NullQueue
    /\ \E result \in Statuses("xtm_delete", xtm.inner) :
          XtmReturn("delete",
                    xtm_call(xtm, "xtm_delete", xtm.inner, result), result,
                    Ok(NoValue))

\* Queue::delete
Delete ==
    /\ xtm.inner # NullQueue
    /\ \E result \in Statuses("xtm_delete", xtm.inner) :
          XtmReturn("delete",
                    xtm_call(xtm, "xtm_delete", xtm.inner, result), result,
                    IF result < 0
                    THEN TarantoolError_last(xtm_call(xtm, "xtm_delete",
                                                      xtm.inner, result))
                    ELSE Ok(NoValue))

\* Queue::msg_notify
MsgNotify ==
    /\ xtm.inner # NullQueue
    /\ \E result \in Statuses("xtm_msg_notify", xtm.inner) :
          XtmReturn("msg_notify",
                    xtm_call(xtm, "xtm_msg_notify", xtm.inner, result),
                    result,
                    IF result < 0
                    THEN TarantoolError_last(xtm_call(xtm, "xtm_msg_notify",
                                                      xtm.inner, result))
                    ELSE Ok(NoValue))

\* Queue::msg_probe
MsgProbe ==
    /\ xtm.inner # NullQueue
    /\ \E result \in Statuses("xtm_msg_probe", xtm.inner) :
          XtmReturn("msg_probe",
                    xtm_call(xtm, "xtm_msg_probe", xtm.inner, result),
                    result,
                    IF result < 0
                    THEN TarantoolError_last(xtm_call(xtm, "xtm_msg_probe",
                                                      xtm.inner, result))
                    ELSE Ok(NoValue))

\* Queue::msg_count: the count the primitive returns, as it is
MsgCount ==
    /\ xtm.inner # NullQueue
    /\ \E n \in IF xtm.inner \in xtm.live THEN {xtm.count[xtm.inner]}
                ELSE 0..MaxMsgs :
          XtmReturn("msg_count",
                    xtm_call(xtm, "xtm_msg_count", xtm.inner, n), n,
                    Ok(Num(n)))

\* Queue::msg_send
MsgSend ==
    /\ xtm.inner # NullQueue
    /\ \E result \in Statuses("xtm_msg_send", xtm.inner) :
          XtmReturn("msg_send",
                    xtm_call(xtm, "xtm_msg_send", xtm.inner, result), result,
                    IF result < 0
                    THEN TarantoolError_last(xtm_call(xtm, "xtm_msg_send",
                                                      xtm.inner, result))
                    ELSE Ok(NoValue))

\* AsRawFd for Queue: the descriptor the primitive returns, as it is
AsRawFd ==
    /\ xtm.inner # NullQueue
    /\ \E fd \in IF xtm.inner \in xtm.live THEN {xtm.inner} ELSE {-1, 0} :
          XtmReturn("as_raw_fd",
                    xtm_call([xtm EXCEPT !.diag = IF fd < 0 THEN "" ELSE @],
                             "xtm_fd", xtm.inner, fd),
                    fd, Ok(Num(fd)))

----------------------------------------------------------------------------
(* The process-wide logger (tests/src/log.rs). logger is the record         *)
(* [set, max, records, runs, test, out]: the logger that is installed, the  *)
(* maximum level, the records the engine was given, the number of tests    *)
(* run, the last of them and how it ended.                                  *)

InitLogger ==
    [set |-> "none", max |-> "Off", records |-> <<>>, runs |-> 0,
     test |-> "", out |-> ""]

\* log::set_logger(logger).unwrap(): the first logger is installed; with a
\* logger installed the call fails and unwrap panics
set_logger(g, logger_name) ==
    IF g.set = "none"
    THEN [g EXCEPT !.set = logger_name, !.out = "ok"]
    ELSE [g EXCEPT !.out = "panic"]

\* the say level the installed logger gives to a warning: the mapping of
\* log_with_user_defined_mapping sends Level::Warn to SayLevel::Info
MappedWarn(g) == IF g.set = "mapping" THEN "Info" ELSE "Warn"

\* the rest of both tests once the logger is set: set_max_level(Debug),
\* warn! through the installed logger, then say(SayLevel::Warn, ..)
log_and_say(g) ==
    IF g.out = "panic" THEN g
    ELSE [g EXCEPT !.max = "Debug",
                   !.records = @ \o <<[by |-> g.test, via |-> "warn!",
                                       level |-> MappedWarn(g)],
                                      [by |-> g.test, via |-> "say",
                                       level |-> "Warn"]>>]

\* the test `test` runs in the process
Ran(test, g) ==
    /\ logger.runs < MaxRuns
    /\ logger' = g
    /\ UNCHANGED <<lua, held, last, xtm>>

\* zlog that goes on when set_logger fails
zlog_without_unwrap ==
    Ran("zlog",
        log_and_say([set_logger([logger EXCEPT !.runs = @ + 1,
                                               !.test = "zlog", !.out = ""],
                                "zlog")
                        EXCEPT !.out = "ok"]))

\* zlog()
zlog ==
    Ran("zlog",
        log_and_say(set_logger([logger EXCEPT !.runs = @ + 1,
                                              !.test = "zlog", !.out = ""],
                               "zlog")))

\* log_with_user_defined_mapping()
log_with_user_defined_mapping ==
    Ran("log_with_user_defined_mapping",
        log_and_say(set_logger([logger EXCEPT
                                   !.runs = @ + 1,
                                   !.test = "log_with_user_defined_mapping",
                                   !.out = ""],
                               "mapping")))

----------------------------------------------------------------------------
(* The state machine: a caller holding two read-write views, of the plain  *)
(* table T1 at position 1 and of T2 at position 2, performs get, set,      *)
(* call and call_method through them and through the views it got back,    *)
(* and drops the results it holds, last obtained first.                    *)

InitLua ==
    [stack |-> <<Tab(T1), Tab(T2)>>,
     reg |-> <<Str("pinned"), Free, Free, Free>>,
     tables |-> [id \in TableIds |-> IF id = T1 THEN InitT1 ELSE InitT2],
     status |-> 0, errv |-> Nil, ret |-> 0,
     acq |-> <<>>, rel |-> <<>>, ncalls |-> 0, nsets |-> 0,
     codes |-> <<>>, emsg |-> Nil, prot |-> FALSE, unprot |-> 0,
     nnative |-> 0, inv |-> 0, holder |-> <<Caller, Caller, Caller, Caller>>,
     badrel |-> 0, log |-> <<>>, cfun |-> Nil, cargs |-> <<>>]

\* the record of the last operation: what was asked, what came back, and
\* the stack depth and live-handle count before it
Last(op, api, pos, key, value, R, r, l) ==
    [op |-> op, api |-> api, pos |-> pos, key |-> key, value |-> value,
     rtype |-> R,
     res |-> r.res, gsize |-> r.gsize, h |-> 0,
     top0 |-> lua_gettop(l), live0 |-> LiveCount(l)]

NoResult == [res |-> Ok(NoValue), gsize |-> 0]

Init ==
    /\ lua = InitLua
    /\ held = <<>>
    /\ last = Last("init", "", 0, Nil, Nil, "", NoResult, InitLua)
    /\ xtm = InitXtm
    /\ logger = InitLogger

\* the ghost fields are per operation
Begin(l) ==
    [l EXCEPT !.acq = <<>>, !.rel = <<>>, !.ncalls = 0, !.nsets = 0,
              !.codes = <<>>, !.emsg = Nil, !.unprot = 0, !.nnative = 0,
              !.badrel = 0, !.holder = [h \in 1..Len(l.reg) |-> Caller],
              !.log = <<>>, !.cfun = Nil, !.cargs = <<>>]

Running == last.res.tag # "Panic"

\* the positions of the views the caller can index, and of those it can call
IndexPositions ==
    {1, 2} \cup {held[h].index : h \in {j \in 1..Len(held) :
                        held[j].kind \in {"Indexable", "IndexableRW"}}}
CallPositions ==
    {held[h].index : h \in {j \in 1..Len(held) : held[j].kind = "Callable"}}

\* a returned value that owns slots is held by the caller
Hold(r, R) ==
    IF r.res.tag = "Ok" /\ r.gsize > 0
    THEN Append(held, [size |-> r.gsize, kind |-> R, index |-> r.index])
    ELSE held

CanStage == LiveCount(lua) + 3 <= MaxRefs
CanPush == Len(lua.stack) <= MaxStack
\* Index::try_into_get: imp::try_get on the view itself, passed by value
\* with the slots its guard owns; an error comes back with the view
Index_try_into_get(l, this, index, R) ==
    try_get(l, this.size, this.index, index, R)

\* map_err(|(this, _)| this): the error is dropped, the view comes back
map_err_this(r) ==
    IF r.res.tag = "Err" THEN [r EXCEPT !.res = Err("Original", "")] ELSE r

\* Index::into_get: try_into_get(index).map_err(|(this, _)| this)
Index_into_get(l, this, index, R) ==
    map_err_this(Index_try_into_get(l, this, index, R))

CanHold(R) == R \in ViewTypes => Len(held) < MaxHeld

\* the operation returned r: the caller's Lua state is the one it left, a
\* result that owns slots is held, and the operation is recorded
Return(op, api, pos, key, value, R, r) ==
    /\ lua' = r.l
    /\ held' = Hold(r, R)
    /\ last' = Last(op, api, pos, key, value, R, r, lua)
    /\ UNCHANGED <<xtm, logger>>

Get(api, pos, key, R) ==
    /\ Running /\ CanStage /\ CanPush /\ CanHold(R)
    /\ pos \in IndexPositions
    /\ Return("get", api, pos, key.v, Nil, R,
              IF api = "get" THEN Index_get(Begin(lua), pos, key, R)
              ELSE Index_try_get(Begin(lua), pos, key, R))

\* a set returns (), which owns no slot
Unit(r) == [l |-> r.l, res |-> r.res, gsize |-> 0, index |-> 0]

Set(api, pos, key, value) ==
    /\ Running /\ CanStage /\ CanPush
    /\ pos \in {1, 2}
    /\ api \in {"set", "try_set"} => key.ok /\ value.ok
    /\ Return("set", api, pos, key.v, value.v, "",
              Unit(CASE api = "set" ->
                            NewIndex_set(Begin(lua), pos, key, value)
                     [] api = "try_set" ->
                            NewIndex_try_set(Begin(lua), pos, key, value)
                     [] api = "checked_set" ->
                            NewIndex_checked_set(Begin(lua), pos, key, value)
                     [] OTHER ->
                            NewIndex_try_checked_set(Begin(lua), pos, key,
                                                     value)))

CallWith(pos, args, R) ==
    /\ Running /\ CanPush /\ CanHold(R)
    /\ pos \in CallPositions
    /\ Return("call", "call_with", pos, Nil, Nil, R,
              call(Begin(lua), 0, pos, args, R))

\* call_with through the view the caller obtained first, while the view it
\* obtained after it stands above it; the result is a host value
CallBelow(args, R) ==
    /\ Running
    /\ Len(held) >= 2
    /\ held[1].kind = "Callable"
    /\ lua_gettop(lua) <= MaxStack + 1
    /\ Return("call", "call_with", held[1].index, Nil, Nil, R,
              call(Begin(lua), 0, held[1].index, args, R))

CallMethod(pos, name, args, R) ==
    /\ Running /\ CanStage /\ CanPush /\ CanHold(R)
    /\ pos \in IndexPositions
    /\ Return("call_method", "call_method", pos, Str(name), args.vs, R,
              call_method(Begin(lua), pos, name, args, R))

\* the caller drops the result it obtained last: its guard pops its slots
Release ==
    /\ Running
    /\ held # <<>>
    /\ lua' = drop_guard(Begin(lua), held[Len(held)].size, 0)
    /\ held' = SubSeq(held, 1, Len(held) - 1)
    /\ last' = Last("release", "", 0, Nil, Nil, "", NoResult, lua)
    /\ UNCHANGED <<xtm, logger>>

\* the conversion of the view the caller holds at place h returned r: the
\* caller holds the view it got back in its place
Converted(op, h, target, r) ==
    /\ lua' = r.l
    /\ held' = [held EXCEPT ![h] = r.view]
    /\ last' = [Last(op, held[h].kind, held[h].index, Nil, Nil, target,
                     [res |-> r.res, gsize |-> held[h].size], lua)
                   EXCEPT !.h = h]
    /\ UNCHANGED <<xtm, logger>>

TryFrom(h, target) ==
    /\ Running /\ CanPush
    /\ h \in 1..Len(held)
    /\ <<held[h].kind, target>> \in TryFromPairs
    /\ Converted("try_from", h, target, try_from(Begin(lua), held[h], target))

From(h, target) ==
    /\ Running
    /\ h \in 1..Len(held)
    /\ <<held[h].kind, target>> \in FromPairs
    /\ Converted("from", h, target, from(Begin(lua), held[h], target))

\* the consuming fetch through the view the caller obtained last returned
\* r: a value that owns slots takes the place of the view, a value that owns
\* none leaves nothing of it, and an error hands the view back
Consumed(api, key, R, r) ==
    /\ lua' = r.l
    /\ held' = IF r.res.tag = "Ok"
               THEN IF r.gsize > 0
                    THEN [held EXCEPT ![Len(held)] =
                             [size |-> r.gsize, kind |-> R, index |-> r.index]]
                    ELSE SubSeq(held, 1, Len(held) - 1)
               ELSE held
    /\ last' = [Last("into_get", api, held[Len(held)].index, key.v, Nil, R,
                     r, lua)
                   EXCEPT !.h = Len(held)]
    /\ UNCHANGED <<xtm, logger>>

IntoGet(api, key, R) ==
    /\ Running /\ CanStage /\ CanPush
    /\ held # <<>>
    /\ held[Len(held)].kind \in {"Indexable", "IndexableRW"}
    /\ Consumed(api, key, R,
                IF api = "into_get"
                THEN Index_into_get(Begin(lua), held[Len(held)], key, R)
                ELSE Index_try_into_get(Begin(lua), held[Len(held)], key, R))

\* the inputs of the model
GetCalls ==
    {<<"get", "int">>, <<"try_get", "int">>, <<"try_get", "Callable">>,
     <<"try_get", "Indexable">>}
GetKeys == {Host(Str("x")), Host(Str("m2")), Host(Str("s"))}
Kinds == {"Callable", "Indexable", "IndexableRW", "LuaTable", "LuaFunction"}
SetKeys == {Host(Str("x")), Unpushable}
SetValues == {Host(Num(42)), Unpushable}
SetApis == {"set", "try_set", "checked_set", "try_checked_set"}
MethodNames == {"x", "m2", "e"}
MethodArgs == {Args(<<>>), UnpushableArgs}
CallArgs ==
    {Args(<<>>), Args(<<Num(1)>>), Args(<<Num(2)>>), Args(<<Num(3)>>),
     UnpushableArgs}
CallTypes == {"unit", "int", "Indexable"}

Next ==
    \/ \E c \in GetCalls, pos \in IndexPositions, key \in GetKeys :
          Get(c[1], pos, key, c[2])
    \/ \E api \in SetApis, pos \in {1, 2}, key \in SetKeys,
          value \in SetValues : Set(api, pos, key, value)
    \/ \E pos \in CallPositions, args \in CallArgs, R \in CallTypes :
          CallWith(pos, args, R)
    \/ \E pos \in IndexPositions, name \in MethodNames, args \in MethodArgs,
          R \in CallTypes : CallMethod(pos, name, args, R)
    \/ \E h \in 1..Len(held), target \in Kinds : TryFrom(h, target)
    \/ \E h \in 1..Len(held), target \in Kinds : From(h, target)
    \/ Release

Spec == Init /\ [][Next]_vars

----------------------------------------------------------------------------
(* Registry handle conservation                                            *)

\* how many times x occurs in the sequence q
Count(q, x) == Cardinality({i \in DOMAIN q : q[i] = x})

\* every handle the last operation acquired was released exactly once, and
\* nothing else was released
ReleasedExactlyOnce ==
    \A h \in 1..(Len(lua.reg) + 1) : Count(lua.rel, h) = Count(lua.acq, h)

\* C1: whatever the outcome of get / try_get (success, the VM raising inside
\* the protected call, the value failing to decode), every registry handle
\* it acquired has been released exactly once when it returns, and the
\* live-handle count is what it was before the call.
C1_GetConservesHandles ==
    last.op = "get" =>
        /\ ReleasedExactlyOnce
        /\ LiveCount(lua) = last.live0

\* C2: whatever the outcome of set / try_set / checked_set / try_checked_set
\* (including the VM raising during the assignment), every registry handle
\* it acquired has been released exactly once when it returns, and the
\* live-handle count is what it was before the call.
C2_SetConservesHandles ==
    last.op = "set" =>
        /\ ReleasedExactlyOnce
        /\ LiveCount(lua) = last.live0

\* a get raised in the VM, and left handles behind
C1_Leak ==
    /\ last.op = "get"
    /\ last.res.kind = "ExecutionError"
    /\ LiveCount(lua) > last.live0

\* the key of a set failed to push after the value was staged, and the
\* handle of the value stayed live
C2_Leak ==
    /\ last.op = "set"
    /\ last.res.kind = "KeyPushError"
    /\ LiveCount(lua) = last.live0 + 1

----------------------------------------------------------------------------
(* Stack balance                                                           *)

Depth == Len(lua.stack)

C4_SetStackBalance ==
    [][last'.op = "set" => lua'.stack = lua.stack]_vars

\* a set raised in the VM while the caller held a result
C4_Witness ==
    /\ last.op = "set"
    /\ last.res.kind = "ExecutionError"
    /\ last.res.msg = "newindex error"
    /\ held # <<>>

\* the number of values the callable at the position of the last call
\* returns
ReturnedBy(pos) == Len(FunResults(At(lua, pos).id))

C6_PushErrorLeavesStack ==
    (last.op = "call" /\ last.res.kind = "PushError") =>
        /\ lua.ncalls = 0
        /\ Depth = last.top0

\* the arguments of a call failed to push, and the duplicate of the callable
\* stayed on the stack
C6_DuplicateLeft ==
    /\ last.op = "call"
    /\ last.res.kind = "PushError"
    /\ lua.ncalls = 0
    /\ Depth = last.top0 + 1
    /\ At(lua, -1) = At(lua, last.pos)

----------------------------------------------------------------------------
(* Round trip of set and get                                               *)

\* the round trip is checked on the plain table T1 with keys and values of
\* every primitive type
RTKeys == {Host(Str("x")), Host(Num(1))}
RTValues == {Host(Bool(TRUE)), Host(Bool(FALSE)), Host(Num(42)), Host(Num(7)),
             Host(Str("a")), Host(Str("b"))}
RTTypes == {"bool", "int", "text"}

NextRT ==
    \/ \E key \in RTKeys, value \in RTValues : Set("try_set", 1, key, value)
    \/ \E key \in RTKeys, R \in RTTypes : Get("try_get", 1, key, R)

SpecRT == Init /\ [][NextRT]_vars

\* the host type a value is read back as
HostTypeOf(v) ==
    CASE v.t = "boolean" -> "bool"
      [] v.t = "number" -> "int"
      [] v.t = "string" -> "text"
      [] OTHER -> "none"

\* C7: on a read-write view of a plain table, set(k, v) followed by get(k)
\* asking for the type of v returns v, for boolean, integer and text v, and
\* after any sequence of sets and gets before them.
C7_RoundTrip ==
    [][(/\ last.op = "set" /\ last.res.tag = "Ok"
        /\ last'.op = "get"
        /\ last'.pos = last.pos
        /\ last'.key = last.key
        /\ last'.rtype = HostTypeOf(last.value))
       => last'.res = Ok(last.value)]_vars

\* text was read back under the integer key while the other key holds a
\* boolean
C7_Witness ==
    /\ last.op = "get"
    /\ last.key = Num(1)
    /\ last.rtype = "text"
    /\ last.res = Ok(Str("a"))
    /\ lua.tables[T1][Str("x")] = Bool(TRUE)

\* the field `key` of the value at `pos`, read raw
FieldAt(pos, key) == RawGet(lua, At(lua, pos), key)

\* C8: get of "x" as an integer on a table view with no field "x" returns
\* None; after set("x", 42) on the same view it returns Some(42).
C8_AbsentThenPresent ==
    /\ []((/\ last.op = "get" /\ last.api = "get"
           /\ last.key = Str("x") /\ last.rtype = "int"
           /\ At(lua, last.pos).t = "table"
           /\ FieldAt(last.pos, Str("x")) = Nil)
          => last.res = Err("None", ""))
    /\ [][(/\ last.op = "set" /\ last.api = "set" /\ last.res.tag = "Ok"
            /\ last.key = Str("x") /\ last.value = Num(42)
            /\ last'.op = "get" /\ last'.api = "get"
            /\ last'.pos = last.pos
            /\ last'.key = Str("x") /\ last'.rtype = "int")
           => last'.res = Ok(Num(42))]_vars

\* get returned Some(42) for "x"
C8_Witness ==
    /\ last.op = "get" /\ last.api = "get"
    /\ last.pos = 1
    /\ last.key = Str("x")
    /\ last.res = Ok(Num(42))

----------------------------------------------------------------------------
(* call_method                                                             *)

\* C9: call_method of a name absent from the table is NoSuchMethod;
\* call_method of a name whose field is callable and raises when it runs is
\* the execution error with the message of the VM, not NoSuchMethod.
C9_MissingVersusRaising ==
    (last.op = "call_method" /\ At(lua, last.pos) = Tab(T1)) =>
        /\ FieldAt(last.pos, last.key) = Nil =>
                last.res = Err("NoSuchMethod", "")
        /\ (FieldAt(last.pos, last.key) = Fun("e") /\ lua.ncalls = 1) =>
                last.res = Err("LuaError:ExecutionError", "boom")

\* the method ran and raised
C9_Witness ==
    /\ last.op = "call_method"
    /\ last.pos = 1
    /\ last.key = Str("e")
    /\ lua.ncalls = 1
    /\ last.res.msg = "boom"

\* C10: call_method is NoSuchMethod exactly when self[name] is nil, and so
\* never when self[name] holds a value, callable or not.
C10_NoSuchMethodIffNil ==
    (last.op = "call_method" /\ At(lua, last.pos) = Tab(T1)) =>
        (last.res.kind = "NoSuchMethod" <=> FieldAt(last.pos, last.key) = Nil)

\* call_method of a field holding 42 was NoSuchMethod
C10_NoSuchMethodOnValue ==
    /\ last.op = "call_method"
    /\ At(lua, last.pos) = Tab(T1)
    /\ FieldAt(last.pos, last.key) = Num(42)
    /\ last.res = Err("NoSuchMethod", "")

\* the error kinds that tell the caller the field is there but cannot be
\* called
WrongCapabilityKinds == {"WrongCapability", "PushError", "LuaError:WrongType"}

\* C11: call_method of a name whose field holds a value that is not callable
\* (42, stored by a set) returns an error value of the wrong-capability /
\* PushError kind, and does not panic.
C11_NotCallableIsWrongCapability ==
    (/\ last.op = "call_method"
     /\ At(lua, last.pos) = Tab(T1)
     /\ FieldAt(last.pos, last.key) = Num(42))
    => /\ last.res.tag = "Err"
       /\ last.res.kind \in WrongCapabilityKinds

\* call_method of the field holding 42, with arguments that push, returned
\* an error value without a panic and left the stack as deep as it was
C11_ErrorValue ==
    /\ last.op = "call_method"
    /\ At(lua, last.pos) = Tab(T1)
    /\ FieldAt(last.pos, last.key) = Num(42)
    /\ last.res.tag = "Err"
    /\ last.res.kind \notin WrongCapabilityKinds
    /\ Depth = last.top0

\* C12: whenever the VM raises during call_method, the caller gets the
\* execution error with the message of the VM: also when __index raises
\* while the name is resolved (the view of T2, whose __index raises for
\* every name), not only when the method raises while it runs.
C12_NoMessageDiscarded ==
    last.op = "call_method" =>
        /\ (At(lua, last.pos) = Tab(T2) /\ last.key = Str("x")) =>
                last.res = Err("LuaError:ExecutionError", "index error")
        /\ (/\ At(lua, last.pos) = Tab(T1)
            /\ FieldAt(last.pos, last.key) = Fun("e")
            /\ lua.ncalls = 1) =>
                last.res = Err("LuaError:ExecutionError", "boom")

\* __index raised while call_method resolved the name, and the caller got
\* NoSuchMethod with no message
C12_MessageDiscarded ==
    /\ last.op = "call_method"
    /\ At(lua, last.pos) = Tab(T2)
    /\ last.key = Str("x")
    /\ last.res = Err("NoSuchMethod", "")

----------------------------------------------------------------------------
(* Conversions                                                             *)

\* the first n slots of the stack
Below(l, n) == SubSeq(l.stack, 1, n)

\* C13: a narrowing conversion that fails returns the original view: the
\* same guard (the same slots owned), the same type and the same position;
\* no slot of the stack is released or changed, no registry handle is
\* touched, and the view stands on the same value as before, so that it
\* serves get, set, call and conversions as it did.
C13_FailedConversionReturnsView ==
    [][(last'.op = "try_from" /\ last'.res.tag = "Err")
       => /\ held' = held
          /\ Len(lua'.stack) >= Len(lua.stack)
          /\ Below(lua', Len(lua.stack)) = lua.stack
          /\ At(lua', held'[last'.h].index) = At(lua, held[last'.h].index)
          /\ lua'.reg = lua.reg
          /\ lua'.tables = lua.tables]_vars

\* the conversion of a view of a string to a read-write view failed, and
\* the caller holds the view of the string as before
C13_Witness ==
    /\ last.op = "try_from"
    /\ last.res.tag = "Err"
    /\ last.api = "Indexable"
    /\ last.rtype = "IndexableRW"
    /\ held[last.h] = [size |-> 1, kind |-> "Indexable", index |-> last.pos]
    /\ At(lua, last.pos) = Str("text")

----------------------------------------------------------------------------
(* Status of the protected calls                                           *)

\* the status the VM reported to the last operation
Reported == lua.codes[Len(lua.codes)]

\* the entry points that hand the error of the protected call to the caller
\* as it is
Direct == {"try_get", "try_set", "try_checked_set", "call_with"}

\* C14: in protected_call (get, set) and in call, the status success gives
\* no error of the VM; the status runtime-error gives the error value
\* ExecutionError with the message the VM left on the stack; the status
\* memory-exhaustion is never returned as an error value, it panics; any
\* other status panics.
C14_StatusHandling ==
    (last.op \in {"get", "set", "call"} /\ lua.codes # <<>>) =>
        /\ Reported = 0 =>
                last.res.tag # "Panic" /\ last.res.kind # "ExecutionError"
        /\ (Reported = LUA_ERRRUN /\ last.api \in Direct) =>
                last.res = Err("ExecutionError", ToText(lua.emsg))
        /\ Reported = LUA_ERRMEM => last.res.tag = "Panic"
        /\ Reported \notin {0, LUA_ERRRUN, LUA_ERRMEM} =>
                last.res.tag = "Panic"

\* the VM ran out of memory under lua_cpcall while try_get fetched a field,
\* and try_get panicked
C14_Witness ==
    /\ last.op = "get"
    /\ last.api = "try_get"
    /\ lua.codes = <<LUA_ERRMEM>>
    /\ last.res.tag = "Panic"

----------------------------------------------------------------------------
(* Error taxonomy of try_get                                               *)

\* target[key] for the operands of the last get, when the lookup does not
\* raise: the raw field of a table, nil for a string (the string library
\* has none of the keys of the model)
Fetched ==
    IF At(lua, last.pos).t = "table" THEN FieldAt(last.pos, last.key) ELSE Nil

\* whether the value v has the capability of the view type kind
Satisfies(v, kind) ==
    CASE kind = "Callable" -> v.t = "function" \/ "__call" \in MetaFields(v)
      [] kind = "Indexable" -> v.t = "table" \/ "__index" \in MetaFields(v)
      [] kind = "IndexableRW" ->
            v.t = "table" \/ {"__index", "__newindex"} \subseteq MetaFields(v)
      [] kind = "LuaTable" -> v.t = "table"
      [] kind = "LuaFunction" -> v.t = "function"
      [] OTHER -> FALSE

\* whether the value v decodes into the result type R
Decodes(v, R) ==
    CASE R = "int" -> v.t = "number"
      [] R = "bool" -> v.t = "boolean"
      [] R = "text" -> v.t = "string"
      [] OTHER -> Satisfies(v, R)

\* C15: try_get returns ExecutionError, with the message of the VM, exactly
\* when the VM raised during the native get; WrongType exactly when the
\* native get succeeded and the fetched value does not decode into the type
\* asked for; Ok with the decoded value otherwise; and no other error kind.
C15_GetErrorTaxonomy ==
    (last.op = "get" /\ last.api = "try_get" /\ last.res.tag # "Panic") =>
        /\ last.res.kind = "ExecutionError" <=> Reported = LUA_ERRRUN
        /\ Reported = LUA_ERRRUN =>
                last.res = Err("ExecutionError", ToText(lua.emsg))
        /\ last.res.kind = "WrongType" <=>
                (Reported = 0 /\ ~Decodes(Fetched, last.rtype))
        /\ last.res.tag = "Ok" <=>
                (Reported = 0 /\ Decodes(Fetched, last.rtype))
        /\ last.res.tag = "Ok" => last.res.val = Fetched
        /\ last.res.tag = "Err" =>
                last.res.kind \in {"ExecutionError", "WrongType"}

\* the native get succeeded and the text it fetched did not decode as an
\* integer
C15_Witness ==
    /\ last.op = "get"
    /\ last.api = "try_get"
    /\ last.key = Str("s")
    /\ last.rtype = "int"
    /\ Fetched = Str("text")
    /\ last.res = Err("WrongType", "")

----------------------------------------------------------------------------
(* Failure surface of the set family                                       *)

\* the error of a key or value that failed to push
PushFailures == {"KeyPushError", "ValuePushError"}

\* C16: when the VM raises during the assignment, set and checked_set
\* panic while try_set and try_checked_set return the execution error of
\* the VM as a value; when the value or the key fails to push, checked_set
\* and try_checked_set return that failure as a value (the value's before
\* the key's), of a kind that is never the kind of an error of the VM.
C16_SetFailureSurface ==
    last.op = "set" =>
        /\ (lua.codes # <<>> /\ Reported = LUA_ERRRUN) =>
                IF last.api \in {"set", "checked_set"}
                THEN last.res.tag = "Panic"
                ELSE last.res = Err("ExecutionError", ToText(lua.emsg))
        /\ lua.codes = <<>> =>
                /\ last.api \in {"checked_set", "try_checked_set"}
                /\ last.res =
                      Err(IF last.value = Unpushable.v THEN "ValuePushError"
                          ELSE "KeyPushError", "")
        /\ (lua.codes # <<>> /\ Reported = 0) => last.res = Ok(NoValue)
        /\ last.res.kind \in PushFailures => lua.codes = <<>>
        /\ last.res.kind = "ExecutionError" => lua.codes # <<>>

\* checked_set panicked on the error __newindex raised
C16_Witness ==
    /\ last.op = "set"
    /\ last.api = "checked_set"
    /\ lua.codes = <<LUA_ERRRUN>>
    /\ last.res = Panic("Setting value failed: newindex error")

-----------------------------------------------------------------------------
(* The native get and set run under the protected call                     *)

\* the entry points of imp::try_get and imp::try_checked_set themselves
Staged == {"try_get", "try_set", "try_checked_set"}

\* C17, as stated: the native get and set are entered only inside a
\* protected call, and whenever the VM aborts one of them, try_get /
\* try_checked_set hands its caller an error value.
C17_AbortBecomesErrorValue ==
    /\ lua.unprot = 0
    /\ (last.op \in {"get", "set"} /\ last.api \in Staged
            /\ lua.codes # <<>> /\ Reported # 0) =>
          last.res.tag = "Err"

\* C17, amended: the native get and set are entered only inside a protected
\* call, so no abort of the VM leaves it; a runtime error comes back from
\* try_get / try_checked_set as the error value ExecutionError with the
\* message of the VM, and memory exhaustion or an unknown status makes
\* them panic once the protected call has returned.
C17_NativeAccessIsProtected ==
    /\ lua.unprot = 0
    /\ lua.status = 0
    /\ (last.op \in {"get", "set"} /\ last.api \in Staged
            /\ lua.codes # <<>>) =>
          /\ Reported = LUA_ERRRUN =>
                last.res = Err("ExecutionError", ToText(lua.emsg))
          /\ Reported \notin {0, LUA_ERRRUN} => last.res.tag = "Panic"

\* __newindex raised a runtime error under the protected call of
\* try_checked_set, which returned it as an error value
C17_Witness ==
    /\ last.op = "set"
    /\ last.api = "try_checked_set"
    /\ lua.codes = <<LUA_ERRRUN>>
    /\ lua.unprot = 0
    /\ last.res = Err("ExecutionError", ToText(lua.emsg))

-----------------------------------------------------------------------------
(* Re-entrancy: metamethods that are callbacks into this layer              *)

\* gets and sets with the key whose metamethods re-enter, on the plain table
\* and on the table with the metamethods
REKeys == {Host(Str("x")), Host(CallbackKey)}
REValues == {Host(Num(42)), Host(Str("text"))}
RECalls == {<<"try_get", "int">>, <<"try_get", "Indexable">>}

NextRE ==
    \/ \E c \in RECalls, pos \in IndexPositions, key \in REKeys :
          Get(c[1], pos, key, c[2])
    \/ \E pos \in {1, 2}, key \in REKeys, value \in REValues :
          Set("try_checked_set", pos, key, value)
    \/ Release

SpecRE == Init /\ [][NextRE]_vars

\* t[k] in the Lua state l when the lookup does not raise: the raw field,
\* or what __index returns
Lookup(l, tv, k) ==
    IF tv.t # "table" THEN Nil
    ELSE IF RawGet(l, tv, k) # Nil THEN RawGet(l, tv, k)
    ELSE IF "__index" \in MetaFields(tv) /\ k = CallbackKey THEN CallbackValue
    ELSE Nil

\* the tables of l with t[k] = v stored
Stored(l, tv, k, v) == [l.tables EXCEPT ![tv.id][k] = v]

\* C18: also when the native get or set runs a callback that re-enters
\* (stages operands of its own in the registry, runs a protected call,
\* pushes and pops slots), a get that succeeds returns target[key] for the
\* target and key the caller passed, a set that succeeds has stored the
\* value the caller passed under that key of that target and nothing else,
\* and unless the operation panicked the caller's stack is what it was,
\* with the slots of the result on top of it.
C18_ReentrancyKeepsOperands ==
    [][/\ (last'.op \in {"get", "set"} /\ last'.res.tag # "Panic") =>
            /\ Below(lua', Len(lua.stack)) = lua.stack
            /\ Len(lua'.stack) = Len(lua.stack) + last'.gsize
       /\ (last'.op = "get" /\ last'.res.tag = "Ok") =>
            /\ last'.res.val = Lookup(lua, At(lua, last'.pos), last'.key)
            /\ lua'.tables = lua.tables
       /\ (last'.op = "set" /\ last'.res.tag = "Ok") =>
            lua'.tables =
                Stored(lua, At(lua, last'.pos), last'.key, last'.value)]_vars

\* __index re-entered during a get: two protected calls returned, the
\* callback's two handles and the three of the get were acquired, the
\* handle of the value being one the callback had given back, and the get
\* returned what __index returned
C18_Witness ==
    /\ last.op = "get"
    /\ last.key = CallbackKey
    /\ lua.codes = <<0, 0>>
    /\ Len(lua.acq) = 5
    /\ lua.acq[5] = lua.acq[3]
    /\ last.res = Ok(CallbackValue)

-----------------------------------------------------------------------------
(* Release discipline of the guards of results                             *)

\* the slots owned by the guards of the first n results the caller holds
RECURSIVE OwnedBy(_)
OwnedBy(n) == IF n = 0 THEN 0 ELSE held[n].size + OwnedBy(n - 1)

\* the depth of the stack before the first operation
Depth0 == lua_gettop(InitLua)

\* C19: the guard returned with a get or call result owns exactly the slots
\* the operation added on top of the stack, and the guards the caller holds
\* own every slot above the depth before the first operation, so that
\* releasing them, last obtained first, each popping its own slots once,
\* brings the depth back to what it was before the first operation.
C19_ReleaseRestoresDepth ==
    /\ (last.op \in {"get", "call", "call_method"} /\ last.res.tag = "Ok") =>
            Depth = last.top0 + last.gsize
    /\ Running => Depth = Depth0 + OwnedBy(Len(held))

\* every result has been released and a slot no guard owns, holding a
\* function, is left above the depth before the first operation
C19_SlotOutlivesResults ==
    /\ last.op = "release"
    /\ held = <<>>
    /\ Depth = Depth0 + 1
    /\ At(lua, -1).t = "function"

-----------------------------------------------------------------------------
(* Push failures of try_checked_set come before the VM is entered          *)

\* C20: in try_checked_set (and checked_set, which returns its push
\* failures), a value or key that fails to push gives ValuePushError or
\* KeyPushError, and then no protected call was started, the native set
\* was not entered, and the contents of every table are what they were.
C20_PushFailureBeforeVM ==
    [][(last'.op = "set"
            /\ last'.api \in {"checked_set", "try_checked_set"}) =>
         /\ (last'.value = Unpushable.v \/ last'.key = Unpushable.v) =>
                last'.res.kind \in PushFailures
         /\ last'.res.kind \in PushFailures =>
                /\ lua'.codes = <<>>
                /\ lua'.nnative = 0
                /\ lua'.nsets = 0
                /\ lua'.tables = lua.tables]_vars

\* the key failed to push after the value was staged: try_checked_set
\* returned KeyPushError without a protected call
C20_Witness ==
    /\ last.op = "set"
    /\ last.api = "try_checked_set"
    /\ last.key = Unpushable.v
    /\ last.value # Unpushable.v
    /\ last.res = Err("KeyPushError", "")
    /\ lua.acq # <<>>
    /\ lua.codes = <<>>
    /\ lua.nnative = 0

-----------------------------------------------------------------------------
(* The handle of the value when the key fails to push                      *)

\* C21: when try_checked_set (or checked_set) has staged the value and the
\* key then fails to push, the handle acquired for the value has been
\* released when KeyPushError is returned, and the live-handle count is what
\* it was before the call.
C21_KeyPushErrorReleasesValue ==
    (last.op = "set" /\ last.res.kind = "KeyPushError") =>
        /\ \A i \in 1..Len(lua.acq) : Count(lua.rel, lua.acq[i]) = 1
        /\ LiveCount(lua) = last.live0

\* KeyPushError came back from try_checked_set with the one handle it
\* acquired never released: it still pins the value
C21_ValueHandleLeft ==
    /\ last.op = "set"
    /\ last.api = "try_checked_set"
    /\ last.res = Err("KeyPushError", "")
    /\ Len(lua.acq) = 1
    /\ lua.rel = <<>>
    /\ IsLive(lua, lua.acq[1])
    /\ lua.reg[lua.acq[1]] = last.value

-----------------------------------------------------------------------------
(* Which handles get and set give back                                     *)

\* C22: every luaL_unref of try_get and try_checked_set, and of the
\* invocations nested in them through a re-entrant callback, is given a
\* handle that is live and that the same invocation acquired, also when the
\* registry hands a freed number out again: no handle is given back twice,
\* and no handle the caller held before the operation is given back.
C22_UnrefOwnLiveHandles ==
    /\ lua.badrel = 0
    /\ \A h \in 1..Len(lua.reg) :
          /\ Count(lua.rel, h) <= Count(lua.acq, h)
          /\ (IsLive(lua, h) /\ lua.holder[h] = Caller) => h \notin
                {lua.rel[i] : i \in 1..Len(lua.rel)}
    /\ IsLive(lua, 1) /\ lua.reg[1] = Str("pinned")

\* a get whose __index re-entered: the nested invocation gave back its two
\* handles, the get then pinned the value under a number the nested
\* invocation had freed, and gave that number back a second time, live again
C22_Witness ==
    /\ last.op = "get"
    /\ last.res.tag = "Ok"
    /\ Len(lua.acq) = 5
    /\ Len(lua.rel) = 5
    /\ Count(lua.acq, lua.acq[5]) = 2
    /\ Count(lua.rel, lua.acq[5]) = 2
    /\ lua.badrel = 0
    /\ LiveCount(lua) = last.live0

-----------------------------------------------------------------------------
(* Order of the steps of try_get                                           *)

\* the events of g from the i-th on
From_(g, i) == SubSeq(g, i, Len(g))

\* C23: a get stages the key in the registry, then a copy of the indexable,
\* both outside the protected call, and only then enters the protected
\* call; inside it the two come back by their handles, the native get runs
\* and its result is pinned; the result is pushed on the caller's stack
\* only after the protected call returned with success, then decoded, and
\* only then are the three handles given back (value, key, indexable); when
\* the protected call fails nothing is pushed or decoded after it.
C23_GetProtocolOrder ==
    last.op = "get" =>
        LET g == lua.log
            K == g[1].h
            T == g[2].h
            V == g[7].h
        IN /\ Len(g) >= 7
           /\ SubSeq(g, 1, 6) =
                <<Ev("ref", K, FALSE, last.key),
                  Ev("ref", T, FALSE, At(lua, last.pos)),
                  Ev("enter", 0, FALSE, Nil),
                  Ev("rawgeti", T, TRUE, Nil),
                  Ev("rawgeti", K, TRUE, Nil),
                  Ev("native", 0, TRUE, Nil)>>
           /\ K # T
           /\ IF Reported = 0
              THEN From_(g, 7) =
                     <<Ev("ref", V, TRUE, Fetched),
                       Ev("leave", 0, FALSE, Nil),
                       Ev("rawgeti", V, FALSE, Nil),
                       Ev("read", 0, FALSE, Nil),
                       Ev("unref", V, FALSE, Nil),
                       Ev("unref", K, FALSE, Nil),
                       Ev("unref", T, FALSE, Nil)>>
              ELSE From_(g, 7) = <<Ev("leave", Reported, FALSE, Nil)>>

\* a get of a field that is there went through its thirteen steps and
\* returned the field
C23_Witness ==
    /\ last.op = "get"
    /\ last.res.tag = "Ok"
    /\ Fetched # Nil
    /\ Len(lua.log) = 13
    /\ lua.log[7].e = "ref" /\ lua.log[7].p
    /\ lua.log[13] = Ev("unref", lua.log[2].h, FALSE, Nil)

-----------------------------------------------------------------------------
(* Results of a call                                                       *)

\* calls of the functions of T1 returning no, one and two values, through
\* the callable views read from T1 and as methods of the views of T1
CallNames == {"m0", "m1", "m2"}
CallKeys == {Host(Str(n)) : n \in CallNames}
CallMethodArgs == {Args(<<>>), Args(<<Num(3)>>), UnpushableArgs}

NextCall ==
    \/ \E key \in CallKeys : Get("try_get", 1, key, "Callable")
    \/ \E pos \in CallPositions, args \in CallArgs, R \in CallTypes :
          CallWith(pos, args, R)
    \/ \E pos \in IndexPositions, name \in CallNames,
          args \in CallMethodArgs, R \in CallTypes :
             CallMethod(pos, name, args, R)
    \/ \E args \in {Args(<<>>), UnpushableArgs}, R \in {"unit", "int"} :
          CallBelow(args, R)
    \/ Set("try_set", 1, Host(Str("x")), Host(Num(42)))
    \/ Release

SpecCall == Init /\ [][NextCall]_vars

\* the values the callable of the last call returns
Returned == FunResults(At(lua, last.pos).id)

\* whether the values vs decode into the result type R, read from the
\* first of them
DecodesFrom(vs, R) == R = "unit" \/ (vs # <<>> /\ Decodes(vs[1], R))

\* C24: when the VM call succeeds, n_results is the number N of values the
\* callable returned, whatever the number of arguments, zero included;
\* the result is decoded from the first returned value, at the position -N:
\* a view result stands on that slot and its guard owns the N slots, a host
\* value is the first returned value; results that do not decode give
\* WrongType, not ExecutionError, and own nothing.
C24_CallResults ==
    (last.op = "call" /\ lua.codes = <<0>>) =>
        IF DecodesFrom(Returned, last.rtype)
        THEN /\ last.res.tag = "Ok"
             /\ last.rtype # "unit" => last.res.val = Returned[1]
             /\ last.rtype \in ViewTypes =>
                  /\ last.gsize = Len(Returned)
                  /\ Depth = last.top0 + Len(Returned)
                  /\ held[Len(held)].index = last.top0 + 1
                  /\ SubSeq(lua.stack, last.top0 + 1, Depth) = Returned
             /\ last.rtype \notin ViewTypes =>
                  last.gsize = 0 /\ Depth = last.top0
        ELSE /\ last.res = Err("WrongType", "")
             /\ last.gsize = 0
             /\ Depth = last.top0

\* a call with one argument returned two values, a table and a number, and
\* the result is the view of the table, two slots below the top
C24_Witness ==
    /\ last.op = "call"
    /\ lua.codes = <<0>>
    /\ Returned = <<Tab(T1), Num(7)>>
    /\ last.rtype = "Indexable"
    /\ last.res = Ok(Tab(T1))
    /\ last.gsize = 2
    /\ held[Len(held)].index = Depth - 1

-----------------------------------------------------------------------------
(* The callable after a call                                               *)

\* C25: call_with leaves the callable where it is: whatever the outcome of
\* the call (results, an error of the VM, arguments that fail to push, a
\* panic), the slot at the position of the view holds the value it held
\* before, every slot the caller had is unchanged, and the caller still
\* holds the callable view at that position, so it can call it again.
C25_CallableStaysInPlace ==
    [][last'.op = "call" =>
         /\ At(lua', last'.pos) = At(lua, last'.pos)
         /\ At(lua', last'.pos).t = "function"
         /\ Below(lua', Len(lua.stack)) = lua.stack
         /\ last'.pos \in CallPositions
         /\ last'.pos \in CallPositions']_vars

\* a call through a view returned a result the caller holds above the
\* view, and the function is still in the slot of the view
C25_Witness ==
    /\ last.op = "call"
    /\ last.res.tag = "Ok"
    /\ last.gsize > 0
    /\ last.pos \in CallPositions
    /\ last.pos < held[Len(held)].index
    /\ At(lua, last.pos).t = "function"
    /\ lua.ncalls = 1

-----------------------------------------------------------------------------
(* call_method                                                             *)

\* C26: call_method resolves the name through get and calls the field only
\* when it is callable, with the view it was called on as first argument
\* and the caller's arguments after it; every slot the caller had is
\* unchanged, the view included; and what is left above them is owned by
\* the result, none when there is an error, so that with the result (or the
\* error) released the depth is what it was before call_method: the slot
\* of the resolved method is released with it.
C26_MethodCall ==
    [][(last'.op = "call_method" /\ last'.res.tag # "Panic") =>
         /\ lua'.ncalls <= 1
         /\ lua'.ncalls = 1 =>
              /\ lua'.cfun = Lookup(lua, At(lua, last'.pos), last'.key)
              /\ lua'.cfun.t = "function"
              /\ lua'.cargs = <<At(lua, last'.pos)>> \o last'.value
         /\ Below(lua', Len(lua.stack)) = lua.stack
         /\ Len(lua'.stack) = Len(lua.stack) + last'.gsize
         /\ last'.res.tag = "Err" => last'.gsize = 0]_vars

\* call_method returned PushError and the slot of the method it resolved
\* is left on the stack, owned by nothing
C26_MethodSlotLeft ==
    /\ last.op = "call_method"
    /\ last.res.kind = "PushError"
    /\ last.gsize = 0
    /\ lua.ncalls = 0
    /\ Depth = last.top0 + 1
    /\ At(lua, -1) = FieldAt(last.pos, last.key)
    /\ At(lua, -1).t = "function"

-----------------------------------------------------------------------------
(* The capability predicates and the stack                                 *)

\* C27: is_callable, is_indexable and is_rw_indexable leave the depth of
\* the stack as they found it, whatever the value and the answer, so a
\* conversion of a view, narrowing or widening, successful or not, leaves
\* every slot of the stack as it was.
C27_ConversionKeepsDepth ==
    [][last'.op \in {"try_from", "from"} => lua'.stack = lua.stack]_vars

\* the conversion of a view of a string to IndexableRW failed, is_rw_indexable
\* having found __index and no __newindex, and the __index metafield is left
\* on top of the stack
C27_MetafieldLeft ==
    /\ last.op = "try_from"
    /\ last.rtype = "IndexableRW"
    /\ last.res.tag = "Err"
    /\ At(lua, last.pos).t = "string"
    /\ "__index" \in MetaFields(At(lua, last.pos))
    /\ "__newindex" \notin MetaFields(At(lua, last.pos))
    /\ Depth = last.top0 + 1
    /\ At(lua, -1) = Fun("__index")

-----------------------------------------------------------------------------
(* Conversions of views                                                    *)

\* typed reads of the fields of T1 (nothing, a string, a function, a table,
\* userdata with __call, with __index and __newindex, with all three) as
\* views, and conversions of the views read
ConvKeys ==
    {Host(Str(n)) : n \in {"x", "s", "m0", "t", "c", "rw", "crw", "self"}}

NextConv ==
    \/ \E key \in ConvKeys, R \in ViewTypes : Get("try_get", 1, key, R)
    \/ \E h \in 1..Len(held), target \in Kinds : TryFrom(h, target)
    \/ \E h \in 1..Len(held), target \in Kinds : From(h, target)
    \/ \E api \in {"into_get", "try_into_get"},
          key \in {Host(Str("s")), Host(Str("t"))},
          R \in {"IndexableRW", "int"} : IntoGet(api, key, R)
    \/ Release

SpecConv == Init /\ [][NextConv]_vars

\* C28: a narrowing conversion, and a typed read of a view, succeeds exactly
\* when the slot it looks at passes the runtime test of the target type at
\* that time: Callable iff it is a function or has __call, Indexable iff it
\* is a table or has __index, IndexableRW iff it is a table or has __index
\* and __newindex, LuaTable iff it is a table, LuaFunction iff it is a
\* function; the view it yields has the target type, and a failed
\* conversion keeps the type it had.
C28_ConversionIffRuntimeTest ==
    /\ last.op = "try_from" =>
          /\ last.res.tag = "Ok" <=>
                Satisfies(At(lua, last.pos), last.rtype)
          /\ held[last.h].kind =
                IF last.res.tag = "Ok" THEN last.rtype ELSE last.api
          /\ held[last.h].index = last.pos
    /\ (last.op = "get" /\ last.rtype \in ViewTypes /\ lua.codes = <<0>>) =>
          /\ last.res.tag = "Ok" <=> Satisfies(Fetched, last.rtype)
          /\ last.res.tag = "Ok" =>
                /\ held[Len(held)].kind = last.rtype
                /\ At(lua, held[Len(held)].index) = Fetched

\* the field fetched is a userdata with __index and __newindex, and its
\* read as a read-write view, at the top of the stack, failed
C28_ReadRejectsReadWrite ==
    /\ last.op = "get"
    /\ last.rtype = "IndexableRW"
    /\ lua.codes = <<0>>
    /\ Fetched = Object({"__index", "__newindex"})
    /\ Satisfies(Fetched, "IndexableRW")
    /\ last.res = Err("WrongType", "")

-----------------------------------------------------------------------------
(* The widening conversions and the predicates                             *)

\* values of every type of the model, with every metatable a userdata of
\* the model can have
ProbeValues ==
    {Nil, Bool(TRUE), Num(42), Str("text"), Tab(T1), Tab(T2), Fun("m0"), UD}
        \cup {Object(mt) : mt \in SUBSET {"__call", "__index", "__newindex"}}

\* the answer of a predicate for the value v in a slot on top of the stack,
\* addressed by the index i
Accepts_rw(v, i) == is_rw_indexable(PushValue(lua, v), i).ret = 1
Accepts_index(v, i) == is_indexable(PushValue(lua, v), i).ret = 1
Accepts_call(v, i) == is_callable(PushValue(lua, v), i).ret = 1
Accepts_table(v, i) == is_table(PushValue(lua, v), i).ret = 1
Accepts_function(v, i) == is_function(PushValue(lua, v), i).ret = 1

\* C29: the widening conversions are sound for the predicates: whatever
\* value a slot holds, and whether the slot is addressed from the bottom or
\* from the top, is_rw_indexable implies is_indexable, a table passes
\* is_indexable and is_rw_indexable, and a function passes is_callable; and
\* the view a widening yields passes the runtime check of its type at its
\* position.
C29_WideningIsSound ==
    /\ \A v \in ProbeValues : \A i \in {Depth + 1, -1} :
          /\ Accepts_rw(v, i) => Accepts_index(v, i)
          /\ Accepts_table(v, i) => (Accepts_index(v, i) /\ Accepts_rw(v, i))
          /\ Accepts_function(v, i) => Accepts_call(v, i)
    /\ last.op = "from" =>
          /\ last.res.tag = "Ok"
          /\ held[last.h].kind = last.rtype
          /\ ConvCheck(last.rtype, lua, held[last.h].index).ret = 1

\* a view of a userdata with __index and __newindex, read-write, was widened
\* to an indexable view, and the userdata passes is_indexable
C29_Witness ==
    /\ last.op = "from"
    /\ last.api = "IndexableRW"
    /\ last.rtype = "Indexable"
    /\ At(lua, last.pos).t = "object"
    /\ is_rw_indexable(lua, last.pos).ret = 1
    /\ is_indexable(lua, last.pos).ret = 1
    /\ held[last.h].kind = "Indexable"

-----------------------------------------------------------------------------
(* Conversions keep the guard and the position                             *)

\* the narrowing conversion to `target` of the view the conversion r made
narrow_back(r, target) == try_from(r.l, r.view, target)

\* the widening conversion to `target` of the view the conversion r made
widen_back(r, target) == from(r.l, r.view, target)

\* the view is widened to `target` and narrowed back to its own type
WidenNarrow(view, target) ==
    narrow_back(from(lua, view, target), view.kind)

\* the view is narrowed to `target` and, if it was, widened back
NarrowWiden(view, target) ==
    widen_back(try_from(lua, view, target), view.kind)

\* a view of a table is widened twice and narrowed twice
TwiceAndBack(view) ==
    narrow_back(narrow_back(widen_back(from(lua, view, "IndexableRW"),
                                       "Indexable"),
                            "IndexableRW"),
                "LuaTable")

\* the conversion r of `view` neither moved the view nor changed the stack
\* or the registry
SameView(r, view) ==
    /\ r.res.tag = "Ok"
    /\ r.view = view
    /\ r.l.stack = lua.stack
    /\ r.l.reg = lua.reg

\* C30: a successful conversion, widening or narrowing, yields a view with
\* the guard and the absolute position of the view it was given, leaves the
\* stack and the registry as they were and takes or releases no handle; and
\* conversions followed by the reverse conversions give back the view they
\* started from.
C30_ConversionKeepsGuardAndPosition ==
    /\ [][(last'.op \in {"try_from", "from"} /\ last'.res.tag = "Ok")
          => /\ Len(held') = Len(held)
             /\ held'[last'.h] = [held[last'.h] EXCEPT !.kind = last'.rtype]
             /\ \A j \in 1..Len(held) : j # last'.h => held'[j] = held[j]
             /\ lua'.stack = lua.stack
             /\ lua'.reg = lua.reg
             /\ lua'.tables = lua.tables
             /\ \A k \in 1..Len(lua'.log) :
                   lua'.log[k].e \notin {"ref", "unref", "rawgeti"}]_vars
    /\ [](\A h \in 1..Len(held) :
            /\ \A p \in FromPairs :
                  p[1] = held[h].kind
                     => SameView(WidenNarrow(held[h], p[2]), held[h])
            /\ \A p \in TryFromPairs :
                  (/\ p[1] = held[h].kind
                   /\ <<p[2], p[1]>> \in FromPairs
                   /\ try_from(lua, held[h], p[2]).res.tag = "Ok")
                     => SameView(NarrowWiden(held[h], p[2]), held[h])
            /\ held[h].kind = "LuaTable"
                  => SameView(TwiceAndBack(held[h]), held[h]))

\* a view of a userdata that was widened to an indexable view has been
\* narrowed back to a read-write view: it has its guard and its position,
\* and the stack has the depth it had
C30_Witness ==
    /\ last.op = "try_from"
    /\ last.res.tag = "Ok"
    /\ last.api = "Indexable"
    /\ last.rtype = "IndexableRW"
    /\ At(lua, last.pos).t = "object"
    /\ held[last.h] = [size |-> 1, kind |-> "IndexableRW", index |-> last.pos]
    /\ lua_gettop(lua) = last.top0

-----------------------------------------------------------------------------
(* The consuming fetches hand the view back on failure                     *)

\* C31: into_get and try_into_get lose nothing on failure: when the lookup
\* raises or the value cannot be decoded the caller holds the view it gave,
\* with its guard and its position, the slots up to the old top are as they
\* were, and the stack is as deep as before the call.
C31_FailedFetchReturnsView ==
    [][(last'.op = "into_get" /\ last'.res.tag = "Err")
       => /\ held' = held
          /\ last'.res.kind =
                IF last'.api = "into_get" THEN "Original"
                ELSE last'.res.kind
          /\ Below(lua', Len(lua.stack)) = lua.stack
          /\ Len(lua'.stack) = Len(lua.stack)]_vars

\* a consuming fetch that asked for a read-write view and found a string
\* returned the view, and the stack is one slot deeper than before the call
C31_SlotLeftByFailedFetch ==
    /\ last.op = "into_get"
    /\ last.res.tag = "Err"
    /\ last.rtype = "IndexableRW"
    /\ last.key = Str("s")
    /\ held[last.h].index = last.pos
    /\ lua_gettop(lua) = last.top0 + 1

-----------------------------------------------------------------------------
(* Views address their value by an absolute position                       *)

\* C32: a view addresses its value by an absolute position. Whatever has
\* been pushed above it and whatever was done through it, the slot of every
\* view the caller keeps holds the value it held, and get, set, call_method
\* and call through a view stage, index and call the value in the slot of
\* that view.
C32_ViewsAddressTheirSlot ==
    [][/\ At(lua', 1) = Tab(T1)
       /\ At(lua', 2) = Tab(T2)
       /\ \A j \in 1..Len(held) :
             (j <= Len(held') /\ held'[j] = held[j])
                => At(lua', held[j].index) = At(lua, held[j].index)
       /\ (last'.op \in {"get", "call_method"} /\ Len(lua'.log) >= 2)
             => lua'.log[2] = Ev("ref", lua'.log[2].h, FALSE,
                                 At(lua, last'.pos))
       /\ (last'.op = "set" /\ Len(lua'.log) >= 3)
             => lua'.log[3] = Ev("ref", lua'.log[3].h, FALSE,
                                 At(lua, last'.pos))
       /\ (last'.op = "call" /\ lua'.cfun # Nil)
             => lua'.cfun = At(lua, last'.pos)
       /\ (last'.op = "call_method" /\ lua'.cfun # Nil)
             => lua'.cargs[1] = At(lua, last'.pos)]_vars

\* a call was made through a view that has another view above it, and the
\* VM called the function in the slot of the view
C32_Witness ==
    /\ last.op = "call"
    /\ last.res.tag = "Ok"
    /\ Len(held) >= 2
    /\ last.pos = held[1].index
    /\ last.pos < lua_gettop(lua)
    /\ lua.cfun = At(lua, last.pos)
    /\ lua.cfun # At(lua, -1)

-----------------------------------------------------------------------------
(* The collaborators of the object model: the xtm queue and the logger     *)

NextHost ==
    \/ New
    \/ Delete
    \/ MsgNotify
    \/ MsgProbe
    \/ MsgCount
    \/ MsgSend
    \/ AsRawFd
    \/ zlog
    \/ log_with_user_defined_mapping

SpecHost == Init /\ [][NextHost]_vars

\* C33: every fallible operation of Queue reports the outcome of its
\* primitive as a value and none panics: new returns the last error of the
\* engine exactly when xtm_create returned null, and delete, msg_notify,
\* msg_probe and msg_send return the last error of the engine exactly when
\* the primitive returned a negative status, and Ok(()) otherwise.
C33_OutcomeIsAValue ==
    /\ xtm.out.tag \in {"Ok", "Err"}
    /\ xtm.op = "new" =>
          /\ xtm.out.tag = "Err" <=> xtm.r = NullQueue
          /\ xtm.out.tag = "Ok" => xtm.inner = xtm.r
    /\ xtm.op \in {"delete", "msg_notify", "msg_probe", "msg_send"} =>
          /\ xtm.out.tag = "Err" <=> xtm.r < 0
          /\ xtm.out.tag = "Ok" => xtm.out = Ok(NoValue)
    /\ xtm.out.tag = "Err" =>
          /\ xtm.out = Err("TarantoolError", xtm.diag)
          /\ xtm.diag = IF xtm.op = "new" THEN "xtm_create"
                        ELSE xtm.passed.prim

\* xtm_delete failed on a live queue, and delete returned the error the
\* engine set
C33_Witness ==
    /\ xtm.op = "delete"
    /\ xtm.r < 0
    /\ xtm.passed = [prim |-> "xtm_delete", q |-> xtm.inner]
    /\ xtm.inner \in xtm.live
    /\ xtm.out = Err("TarantoolError", "xtm_delete")

\* C34: a queue whose delete succeeded is never given to a primitive again.
C34_NoUseAfterDelete == xtm.misuse = NoCall

\* the queue was deleted, and the same Queue gave it to xtm_msg_send
C34_SentAfterDelete ==
    /\ xtm.inner \in xtm.deleted
    /\ xtm.op = "msg_send"
    /\ xtm.misuse = [prim |-> "xtm_msg_send", q |-> xtm.inner]

\* C35: the logger of the process is set once. When zlog runs with the
\* logger of log_with_user_defined_mapping installed, it panics at
\* set_logger, gives the engine no record, and the installed logger and its
\* mapping stay as they are.
C35_LoggerIsSetOnce ==
    [][(logger.set = "mapping" /\ logger'.runs = logger.runs + 1
                               /\ logger'.test = "zlog")
       => /\ logger'.out = "panic"
          /\ logger'.records = logger.records
          /\ logger'.set = "mapping"
          /\ logger'.max = logger.max
          /\ MappedWarn(logger') = "Info"]_vars

\* zlog ran after log_with_user_defined_mapping and panicked; the only
\* records are those of log_with_user_defined_mapping
C35_Witness ==
    /\ logger.test = "zlog"
    /\ logger.out = "panic"
    /\ logger.set = "mapping"
    /\ logger.runs = 2
    /\ Len(logger.records) = 2
    /\ \A i \in 1..2 : logger.records[i].by = "log_with_user_defined_mapping"
    /\ logger.records[1].level = "Info"

-----------------------------------------------------------------------------
(* The closure and the output slot of protected_call                       *)

\* the places of the log of the last operation where the event e stands
Places(e) == {i \in 1..Len(lua.log) : lua.log[i].e = e}

\* C36: in protected_call the closure runs at most once for an invocation,
\* and its result is taken from the output slot exactly when the protected
\* call reports success: with the status 0 the closure ran to its end, the
\* handle it returned is the one the caller goes on with, and after a
\* runtime error nothing the closure made is used and the error is what
\* the caller gets.
C36_ClosureRunsOnceOutputOnSuccess ==
    (last.op \in {"get", "set"} /\ last.res.tag # "Panic") =>
        LET g == lua.log
            leave == CHOOSE i \in Places("leave") : TRUE
        IN /\ Cardinality(Places("enter")) <= 1
           /\ Cardinality(Places("leave")) = Cardinality(Places("enter"))
           /\ Cardinality(Places("native")) <= Cardinality(Places("enter"))
           /\ \A i \in Places("native") :
                 /\ g[i].p
                 /\ \E a \in Places("enter"), b \in Places("leave") :
                       a < i /\ i < b
           /\ (Places("leave") # {} /\ g[leave].h = 0) =>
                 /\ Cardinality(Places("native")) = 1
                 /\ last.res.kind # "ExecutionError"
                 /\ last.op = "get" =>
                       /\ g[leave - 1] = Ev("ref", g[leave - 1].h, TRUE, Fetched)
                       /\ g[leave + 1] =
                             Ev("rawgeti", g[leave - 1].h, FALSE, Nil)
           /\ (Places("leave") # {} /\ g[leave].h = LUA_ERRRUN) =>
                 /\ leave = Len(g)
                 /\ last.res.tag = "Err"
                 /\ last.api \in Direct =>
                       last.res = Err("ExecutionError", ToText(lua.emsg))
                 /\ \A i \in 1..Len(g) : g[i].e = "ref" => ~g[i].p

\* the native get raised under the protected call of a try_get: the closure
\* was entered once, returned no handle, and try_get returned the error
C36_Witness ==
    /\ last.op = "get"
    /\ last.api = "try_get"
    /\ Cardinality(Places("enter")) = 1
    /\ Cardinality(Places("native")) = 1
    /\ lua.codes = <<LUA_ERRRUN>>
    /\ lua.log[Len(lua.log)] = Ev("leave", LUA_ERRRUN, FALSE, Nil)
    /\ last.res.kind = "ExecutionError"

====
